---- MODULE Spec2Model ----
(***************************************************************************)
(* Model of the streaming .ged parser of gedConvert                        *)
(* (src/lib/ged/ged_parser.py, src/lib/ged/utils.py).                      *)
(*                                                                         *)
(* A Python str is a sequence of one-character strings, None is the empty  *)
(* tuple and a present optional value x is <<x>>.  Values stored in an     *)
(* entity's maps carry a type tag (t) next to their payload (v).           *)
(***************************************************************************)
EXTENDS Integers, Sequences, FiniteSets, TLC

\* ------------------------------------------------------------------------
\* Bounds of the model
\* ------------------------------------------------------------------------
MaxLines == 4

NumConverters == 2

MaxTokens == 3

MaxSaves == 101

NumHashes == 2

MaxRuns == 3

NumPeople == 3

NumFamilies == 2

MaxCalls == 4

\* ------------------------------------------------------------------------
\* Python str primitives
\* ------------------------------------------------------------------------
None == << >>

Some(x) == << x >>

Whitespace == {" ", "\t", "\n", "\r"}

Digits == <<"0", "1", "2", "3", "4", "5", "6", "7", "8", "9">>

UpperChars == <<"A", "B", "C", "D", "E", "F", "G", "H", "I", "J", "K", "L", "M",
                "N", "O", "P", "Q", "R", "S", "T", "U", "V", "W", "X", "Y", "Z">>

LowerChars == <<"a", "b", "c", "d", "e", "f", "g", "h", "i", "j", "k", "l", "m",
                "n", "o", "p", "q", "r", "s", "t", "u", "v", "w", "x", "y", "z">>

Range(s) == {s[i] : i \in DOMAIN s}

IndexIn(c, tab) == CHOOSE i \in DOMAIN tab : tab[i] = c

LowerChar(c) == IF c \in Range(UpperChars) THEN LowerChars[IndexIn(c, UpperChars)] ELSE c

UpperChar(c) == IF c \in Range(LowerChars) THEN UpperChars[IndexIn(c, LowerChars)] ELSE c

\* str.lower()
Lower(s) == [i \in DOMAIN s |-> LowerChar(s[i])]

\* str.capitalize()
Capitalize(s) == [i \in DOMAIN s |-> IF i = 1 THEN UpperChar(s[i]) ELSE LowerChar(s[i])]

\* str.count(c) for a one-character c
Count(s, c) == Cardinality({i \in DOMAIN s : s[i] = c})

\* str.replace(c, "") for a one-character c
Remove(s, c) == SelectSeq(s, LAMBDA x : x # c)

\* str.find(c) for a one-character c, 0-based, -1 when absent
Find(s, c) == IF c \in Range(s) THEN (CHOOSE i \in DOMAIN s : s[i] = c /\ \A j \in 1..(i - 1) : s[j] # c) - 1 ELSE -1

\* str.strip()
LStrip(s) == IF \A i \in DOMAIN s : s[i] \in Whitespace THEN << >> ELSE SubSeq(s, CHOOSE i \in DOMAIN s : s[i] \notin Whitespace /\ \A j \in 1..(i - 1) : s[j] \in Whitespace, Len(s))

RStrip(s) == IF \A i \in DOMAIN s : s[i] \in Whitespace THEN << >> ELSE SubSeq(s, 1, CHOOSE i \in DOMAIN s : s[i] \notin Whitespace /\ \A j \in (i + 1)..Len(s) : s[j] \in Whitespace)

Strip(s) == RStrip(LStrip(s))

\* str.split(sep) for a one-character sep: always at least one token
RECURSIVE SplitFrom(_, _, _, _)
SplitFrom(s, sep, i, cur) == IF i > Len(s) THEN << cur >> ELSE IF s[i] = sep THEN << cur >> \o SplitFrom(s, sep, i + 1, << >>) ELSE SplitFrom(s, sep, i + 1, Append(cur, s[i]))

Split(s, sep) == SplitFrom(s, sep, 1, << >>)

\* sep.join(bits) for a one-character sep
RECURSIVE Join(_, _)
Join(bits, sep) == IF bits = << >> THEN << >> ELSE IF Len(bits) = 1 THEN bits[1] ELSE bits[1] \o << sep >> \o Join(Tail(bits), sep)

\* ------------------------------------------------------------------------
\* Tags (keys) of the .ged format used by the parser
\* ------------------------------------------------------------------------
K_GIVN == <<"G", "I", "V", "N">>

K_DATE == <<"D", "A", "T", "E">>

K_TIME == <<"T", "I", "M", "E">>

K_PLAC == <<"P", "L", "A", "C">>

K_NOTE == <<"N", "O", "T", "E">>

K_SEX == <<"S", "E", "X">>

K_SURN == <<"S", "U", "R", "N">>

K_MARNM == <<"_", "M", "A", "R", "N", "M">>

K_HUSB == <<"H", "U", "S", "B">>

K_WIFE == <<"W", "I", "F", "E">>

K_CHIL == <<"C", "H", "I", "L">>

K_AKA == <<"_", "A", "K", "A">>

K_FAMC == <<"F", "A", "M", "C">>

K_FAMS == <<"F", "A", "M", "S">>

K_UID == <<"_", "U", "I", "D">>

K_INDI == <<"I", "N", "D", "I">>

K_FAM == <<"F", "A", "M">>

GED_LIST_KEYS == {K_CHIL, K_AKA}

KEY_STOP == <<"T", "R", "L", "R">>

\* ------------------------------------------------------------------------
\* Typed values held by an entity
\* ------------------------------------------------------------------------
StrV(s) == [t |-> "str", v |-> s]

ListV(l) == [t |-> "list", v |-> l]

BoolV(b) == [t |-> "bool", v |-> b]

DateV(d, m, y) == [t |-> "date", v |-> <<d, m, y>>]

TimeV(h, m, s) == [t |-> "time", v |-> <<h, m, s>>]

Returned(v) == [ok |-> TRUE, v |-> v]

Raised(e) == [ok |-> FALSE, err |-> e]

\* ------------------------------------------------------------------------
\* utils.py
\* ------------------------------------------------------------------------
strip_alpha(val) == SelectSeq(val, LAMBDA c : c \in Range(Digits))

is_int(val) == val # << >> /\ \A i \in DOMAIN val : val[i] \in Range(Digits)

\* len(val) > 3 in place of len(val) > 2
is_year_long(val) == is_int(val) /\ Len(val) > 3

is_year(val) == is_int(val) /\ Len(val) > 2

RECURSIVE DigitsToInt(_)
DigitsToInt(val) == IF val = << >> THEN 0 ELSE 10 * DigitsToInt(SubSeq(val, 1, Len(val) - 1)) + (IndexIn(val[Len(val)], Digits) - 1)

force_int(val) == IF is_int(strip_alpha(val)) THEN DigitsToInt(strip_alpha(val)) ELSE 0

MonthAbbr == << <<"j", "a", "n">>, <<"f", "e", "b">>, <<"m", "a", "r">>, <<"a", "p", "r">>,
               <<"m", "a", "y">>, <<"j", "u", "n">>, <<"j", "u", "l">>, <<"a", "u", "g">>,
               <<"s", "e", "p">>, <<"o", "c", "t">>, <<"n", "o", "v">>, <<"d", "e", "c">> >>

\* None stands for the ValueError of strptime(month, "%b")
month_str_to_int(month) == IF Lower(month) \in Range(MonthAbbr) THEN Some(IndexIn(Lower(month), MonthAbbr)) ELSE None

RECURSIVE StripBrackets(_)
StripBrackets(date_string) ==
    LET iopen == Find(date_string, "(")
        iclose == Find(date_string, ")")
    IN IF iopen > -1 /\ iclose > -1
       THEN IF iopen >= iclose
            THEN date_string
            ELSE StripBrackets(SubSeq(date_string, 1, iopen) \o SubSeq(date_string, iclose + 2, Len(date_string)))
       ELSE date_string

\* one iteration of the loop over the parts: dmy is <<day, month, year>>
DatePart(dmy, part) ==
    LET stripped == strip_alpha(part)
        potential_month == IF Len(part) > 3 THEN SubSeq(Lower(part), 1, 3) ELSE Lower(part)
    IN IF stripped = << >>
       THEN IF month_str_to_int(potential_month) # None
            THEN <<dmy[1], month_str_to_int(potential_month), dmy[3]>>
            ELSE dmy
       ELSE IF is_year(stripped)
            THEN <<dmy[1], dmy[2], Some(force_int(stripped))>>
            ELSE IF is_int(stripped)
                 THEN <<Some(force_int(stripped)), dmy[2], dmy[3]>>
                 ELSE dmy

RECURSIVE DateParts(_, _)
DateParts(dmy, parts) == IF parts = << >> THEN dmy ELSE DateParts(DatePart(dmy, Head(parts)), Tail(parts))

parse_partial_date(date_string) == DateParts(<<None, None, None>>, Split(StripBrackets(date_string), " "))

\* ------------------------------------------------------------------------
\* ged_parser.py: value handlers
\* ------------------------------------------------------------------------
handle_givennames(val) == Returned(ListV(Split(val, " ")))

handle_surname(val) == Returned(StrV(Capitalize(val)))

handle_married_name(val) == Returned(StrV(Capitalize(Split(val, " ")[Len(Split(val, " "))])))

\* val in ["m"] without val.lower()
handle_gender_exact(val) == Returned(BoolV(val \in {<<"m">>}))

handle_gender(val) == Returned(BoolV(Lower(val) \in {<<"m">>}))

\* _handle_date hands the list val.split(" ") to parse_partial_date, whose
\* first statement calls .find on it: a list has no find, so every call raises
handle_date(val) == LET bits == Split(val, " ") IN Raised("AttributeError")

\* one field of strptime's %H / %M / %S: one or two digits, at most max
TimeField(s, max) == Len(s) \in {1, 2} /\ is_int(s) /\ DigitsToInt(s) <= max

handle_time(val) ==
    LET bits == Split(val, ":")
    IN IF Len(bits) = 3 /\ TimeField(bits[1], 23) /\ TimeField(bits[2], 59) /\ TimeField(bits[3], 59)
       THEN Returned(TimeV(DigitsToInt(bits[1]), DigitsToInt(bits[2]), DigitsToInt(bits[3])))
       ELSE Raised("ValueError")

handle_string(val) == Returned(StrV(val))

handle_link_id(val) == Returned(StrV(Remove(val, "@")))

\* the keys of _HANDLERS
HandlerKeys == {K_GIVN, K_DATE, K_TIME, K_PLAC, K_NOTE, K_SEX, K_SURN, K_MARNM, K_HUSB, K_WIFE, K_CHIL, K_AKA, K_FAMC, K_FAMS, K_UID}

\* _HANDLERS with the flag of SURN set to True
IsMultiAlsoSurn(key) == key \in {K_DATE, K_TIME, K_PLAC, K_SURN}

\* second component of a _HANDLERS entry
IsMulti(key) == key \in {K_DATE, K_TIME, K_PLAC}

\* first component of a _HANDLERS entry, applied to val
Handler(key, val) ==
    CASE key = K_GIVN -> handle_givennames(val)
      [] key = K_DATE -> handle_date(val)
      [] key = K_TIME -> handle_time(val)
      [] key \in {K_PLAC, K_NOTE, K_AKA} -> handle_string(val)
      [] key = K_SEX -> handle_gender(val)
      [] key = K_SURN -> handle_surname(val)
      [] key = K_MARNM -> handle_married_name(val)
      [] key \in {K_HUSB, K_WIFE, K_CHIL, K_FAMC, K_FAMS, K_UID} -> handle_link_id(val)

\* ------------------------------------------------------------------------
\* Python dict: a function from the keys present to their values
\* ------------------------------------------------------------------------
EmptyDict == [k \in {} |-> k]

DictGet(d, k, default) == IF k \in DOMAIN d THEN d[k] ELSE default

DictSet(d, k, v) == [x \in (DOMAIN d) \cup {k} |-> IF x = k THEN v ELSE d[x]]

\* ------------------------------------------------------------------------
\* ged_parser.py: class _DBObj and its subclasses _Person, _Family
\* ------------------------------------------------------------------------
ERR_LOCKED == "You may not set values on this obj now"

\* _DBObj.__init__; cls is the concrete class, serial the object's identity
DBObj(cls, oid, serial) ==
    [cls |-> cls, serial |-> serial, id |-> oid, allow_changes |-> TRUE,
     multiline_key |-> None, multi_data |-> EmptyDict, data |-> EmptyDict]

lock(o) == [o EXCEPT !.allow_changes = FALSE]

\* truth value of the attribute _multiline_key (None and "" are both false)
CursorIsTrue(o) == o.multiline_key # None /\ o.multiline_key[1] # << >>

\* key is None or Some(str)
set_multiline_key(o, key) ==
    IF ~o.allow_changes
    THEN [ok |-> FALSE, err |-> ERR_LOCKED, obj |-> o]
    ELSE [ok |-> TRUE, err |-> "", obj |-> [o EXCEPT !.multiline_key = key]]

\* set_data without the guard of lines 232-233
set_data_unchecked(o, key, parsed_data) ==
    IF CursorIsTrue(o)
    THEN LET mk == o.multiline_key[1]
             tmp == DictSet(DictGet(o.multi_data, mk, EmptyDict), key, parsed_data)
         IN [ok |-> TRUE, err |-> "", obj |-> [o EXCEPT !.multi_data = DictSet(@, mk, tmp)]]
    ELSE IF key \in GED_LIST_KEYS
         THEN LET ls == DictGet(o.data, key, ListV(<< >>)).v \o << parsed_data >>
              IN [ok |-> TRUE, err |-> "", obj |-> [o EXCEPT !.data = DictSet(@, key, ListV(ls))]]
         ELSE [ok |-> TRUE, err |-> "", obj |-> [o EXCEPT !.data = DictSet(@, key, parsed_data)]]

\* set_data that keeps the value a scalar key already has
set_data_keep_first(o, key, parsed_data) ==
    IF ~o.allow_changes
    THEN [ok |-> FALSE, err |-> ERR_LOCKED, obj |-> o]
    ELSE IF CursorIsTrue(o)
         THEN LET mk == o.multiline_key[1]
                  tmp == DictSet(DictGet(o.multi_data, mk, EmptyDict), key, parsed_data)
              IN [ok |-> TRUE, err |-> "", obj |-> [o EXCEPT !.multi_data = DictSet(@, mk, tmp)]]
         ELSE IF key \in GED_LIST_KEYS
              THEN LET ls == DictGet(o.data, key, ListV(<< >>)).v \o << parsed_data >>
                   IN [ok |-> TRUE, err |-> "", obj |-> [o EXCEPT !.data = DictSet(@, key, ListV(ls))]]
              ELSE [ok |-> TRUE, err |-> "", obj |-> [o EXCEPT !.data = DictSet(@, key, DictGet(@, key, parsed_data))]]

set_data_fresh_block(o, key, parsed_data) ==
    IF ~o.allow_changes
    THEN [ok |-> FALSE, err |-> ERR_LOCKED, obj |-> o]
    ELSE IF CursorIsTrue(o)
         THEN LET mk == o.multiline_key[1]
                  tmp == DictSet(EmptyDict, key, parsed_data)
              IN [ok |-> TRUE, err |-> "", obj |-> [o EXCEPT !.multi_data = DictSet(@, mk, tmp)]]
         ELSE IF key \in GED_LIST_KEYS
              THEN LET ls == DictGet(o.data, key, ListV(<< >>)).v \o << parsed_data >>
                   IN [ok |-> TRUE, err |-> "", obj |-> [o EXCEPT !.data = DictSet(@, key, ListV(ls))]]
              ELSE [ok |-> TRUE, err |-> "", obj |-> [o EXCEPT !.data = DictSet(@, key, parsed_data)]]

set_data(o, key, parsed_data) ==
    IF ~o.allow_changes
    THEN [ok |-> FALSE, err |-> ERR_LOCKED, obj |-> o]
    ELSE IF CursorIsTrue(o)
         THEN LET mk == o.multiline_key[1]
                  tmp == DictSet(DictGet(o.multi_data, mk, EmptyDict), key, parsed_data)
              IN [ok |-> TRUE, err |-> "", obj |-> [o EXCEPT !.multi_data = DictSet(@, mk, tmp)]]
         ELSE IF key \in GED_LIST_KEYS
              THEN LET ls == DictGet(o.data, key, ListV(<< >>)).v \o << parsed_data >>
                   IN [ok |-> TRUE, err |-> "", obj |-> [o EXCEPT !.data = DictSet(@, key, ListV(ls))]]
              ELSE [ok |-> TRUE, err |-> "", obj |-> [o EXCEPT !.data = DictSet(@, key, parsed_data)]]

\* ------------------------------------------------------------------------
\* ged_parser.py: what a converter reads from an entity
\* ------------------------------------------------------------------------
K_CHAN == <<"C", "H", "A", "N">>

K_MARR == <<"M", "A", "R", "R">>

IsLeap(y) == (y % 4 = 0 /\ y % 100 # 0) \/ y % 400 = 0

DaysIn(m, y) == IF m = 2 THEN (IF IsLeap(y) THEN 29 ELSE 28) ELSE IF m \in {4, 6, 9, 11} THEN 30 ELSE 31

\* strptime(s, "%d %m %Y %H %M %S") accepts the numbers: %Y is four digits
StrptimeAccepts(d, m, y) == y \in 1000..9999 /\ m \in 1..12 /\ d \in 1..DaysIn(m, y)

\* record.get("DATE") is None without a DATE field and cannot be unpacked
extract_datetime(record) ==
    IF K_DATE \notin DOMAIN record
    THEN Raised("TypeError")
    ELSE LET dmy == record[K_DATE].v
             ctime == IF K_TIME \in DOMAIN record THEN record[K_TIME].v ELSE <<0, 0, 0>>
         IN IF \A i \in 1..3 : dmy[i] # None /\ dmy[i][1] # 0
            THEN IF StrptimeAccepts(dmy[1][1], dmy[2][1], dmy[3][1])
                 THEN Returned(Some([year |-> dmy[3][1], month |-> dmy[2][1], day |-> dmy[1][1],
                                     hour |-> ctime[1], minute |-> ctime[2], second |-> ctime[3]]))
                 ELSE Raised("ValueError")
            ELSE Returned(None)

\* _Person.last_updated
last_updated(o) ==
    LET change_record == DictGet(o.multi_data, K_CHAN, EmptyDict)
    IN IF change_record # EmptyDict THEN extract_datetime(change_record) ELSE Returned(None)

\* _Person.is_male
is_male(o) == DictGet(o.data, K_SEX, BoolV(TRUE)).v

\* _DBObj._get_date for num in 0..2
get_date(o, key, num) ==
    LET block == DictGet(o.multi_data, key, EmptyDict)
    IN IF K_DATE \in DOMAIN block THEN block[K_DATE].v[num + 1] ELSE None

husband_id(o) == IF K_HUSB \in DOMAIN o.data THEN Some(o.data[K_HUSB].v) ELSE None

wife_id(o) == IF K_WIFE \in DOMAIN o.data THEN Some(o.data[K_WIFE].v) ELSE None

marriage_day(o) == get_date(o, K_MARR, 0)

marriage_month(o) == get_date(o, K_MARR, 1)

marriage_year(o) == get_date(o, K_MARR, 2)

marriage_place(o) ==
    LET marr == DictGet(o.multi_data, K_MARR, EmptyDict)
    IN IF K_PLAC \in DOMAIN marr THEN Some(marr[K_PLAC].v) ELSE None

\* ------------------------------------------------------------------------
\* ged_parser.py: the line-to-record driver
\* ------------------------------------------------------------------------
\* _TYPE.get(val, _Person): an unregistered value falls back to a class
TYPE_default_person(val) == IF val = K_FAM THEN Some("_Family") ELSE Some("_Person")

\* _TYPE.get(val): the class registered for a boundary value, or None
TYPE(val) == IF val = K_INDI THEN Some("_Person") ELSE IF val = K_FAM THEN Some("_Family") ELSE None

parse_key_value(line) ==
    LET bits == Split(line, " ")
    IN IF Len(bits) < 2
       THEN [ok |-> FALSE, err |-> "IndexError", key |-> << >>, val |-> << >>]
       ELSE [ok |-> TRUE, err |-> "", key |-> Strip(bits[2]),
             val |-> IF Len(bits) > 2 THEN Strip(Join(SubSeq(bits, 3, Len(bits)), " ")) ELSE << >>]

\* some_class(key) in place of some_class(obj_id)
decide_next_obj_raw_key(key, val, serial) == IF TYPE(val) = None THEN None ELSE Some(DBObj(TYPE(val)[1], key, serial))

\* serial is the number of the line that creates the object
decide_next_obj(key, val, serial) == IF TYPE(val) = None THEN None ELSE Some(DBObj(TYPE(val)[1], Remove(key, "@"), serial))

is_new_obj_line(key) == Count(key, "@") = 2

\* the converter calls of _save, in the order they are made
\* _save walking the converter list from its end
save_reversed(some_obj, at) ==
    [c \in 1..NumConverters |->
        [ev |-> IF some_obj.cls = "_Family" THEN "save_family" ELSE "save_person",
         conv |-> NumConverters + 1 - c, ent |-> some_obj.serial, at |-> at, obj |-> some_obj]]

\* (at is the number of the line being handled)
save(some_obj, at) ==
    [c \in 1..NumConverters |->
        [ev |-> IF some_obj.cls = "_Family" THEN "save_family" ELSE "save_person",
         conv |-> c, ent |-> some_obj.serial, at |-> at, obj |-> some_obj]]

LockEvent(o, at) == [ev |-> "lock", conv |-> 0, ent |-> o.serial, at |-> at, obj |-> lock(o)]

NewEvent(o, at) == [ev |-> "new", conv |-> 0, ent |-> o.serial, at |-> at, obj |-> o]

\* lines 669-674 with the lock after the converter calls
EmitSaveBeforeLock(cur, at) == IF cur = None THEN << >> ELSE save(cur[1], at) \o << LockEvent(cur[1], at) >>

\* lines 669-674: out with the old
Emit(cur, at) == IF cur = None THEN << >> ELSE << LockEvent(cur[1], at) >> \o save(lock(cur[1]), at)

AfterEmit(cur) == IF cur = None THEN None ELSE Some(lock(cur[1]))

\* ------------------------------------------------------------------------
\* Input lines of the model
\* ------------------------------------------------------------------------
FieldLine(level, key, val) == << level, " " >> \o key \o (IF val = << >> THEN << >> ELSE << " " >> \o val) \o << "\n" >>

L_INDI == FieldLine("0", <<"@", "I", "1", "@">>, K_INDI)

L_FAM == FieldLine("0", <<"@", "F", "1", "@">>, K_FAM)

L_SOUR == FieldLine("0", <<"@", "S", "1", "@">>, <<"S", "O", "U", "R">>)

L_TRLR == FieldLine("0", KEY_STOP, << >>)

L_BLANK == << "\n" >>

L_CHIL2 == FieldLine("1", K_CHIL, <<"@", "I", "2", "@">>)

L_CHIL3 == FieldLine("1", K_CHIL, <<"@", "I", "3", "@">>)

L_MARR == FieldLine("1", <<"M", "A", "R", "R">>, << >>)

L_PLAC == FieldLine("2", K_PLAC, <<"x">>)

L_SURN1 == FieldLine("1", K_SURN, <<"a", "B">>)

L_SURN2 == FieldLine("1", K_SURN, <<"C", "d">>)

L_TIME == FieldLine("2", K_TIME, <<"x">>)

L_AKA == FieldLine("1", K_AKA, <<"x">>)

L_DATE == FieldLine("2", K_DATE, <<"1", "5", " ", "J", "a", "n", " ", "1", "9", "2", "0">>)

\* the boundary lines that open the two further families of input files
L_INDI7 == FieldLine("0", <<"@", "I", "7", "@">>, K_INDI)

L_FAM7 == FieldLine("0", <<"@", "F", "7", "@">>, K_FAM)

L_SEX_M == FieldLine("1", K_SEX, <<"M">>)

L_SEX_m == FieldLine("1", K_SEX, <<"m">>)

L_SEX_F == FieldLine("1", K_SEX, <<"F">>)

L_SEX_male == FieldLine("1", K_SEX, <<"m", "a", "l", "e">>)

L_CHAN == FieldLine("1", K_CHAN, << >>)

L_TIMEOK == FieldLine("2", K_TIME, <<"1", "2", ":", "3", "0", ":", "0", "5">>)

L_HUSB1 == FieldLine("1", K_HUSB, <<"@", "I", "1", "@">>)

L_HUSB2 == FieldLine("1", K_HUSB, <<"@", "I", "2", "@">>)

L_WIFE3 == FieldLine("1", K_WIFE, <<"@", "I", "3", "@">>)

L_WIFE4 == FieldLine("1", K_WIFE, <<"@", "I", "4", "@">>)

\* the lines of a file that opens with L_INDI7: one person, SEX and CHAN fields
PersonLines == {L_SEX_M, L_SEX_m, L_SEX_F, L_SEX_male, L_CHAN, L_TIMEOK, L_FAM, L_TRLR}

\* the lines, position by position, of a file that opens with L_FAM7: one
\* family with a husband link, a wife link and a MARR block of DATE and PLAC
FamilyStream == << {L_FAM7}, {L_HUSB1, L_HUSB2}, {L_WIFE3, L_WIFE4}, {L_MARR}, {L_DATE}, {L_PLAC}, {L_TRLR} >>

L_INDI9 == FieldLine("0", <<"@", "I", "9", "@">>, K_INDI)

L_PLACy == FieldLine("2", K_PLAC, <<"y">>)

\* the lines, position by position, of a file that opens with L_INDI9: one
\* person with a block opened, filled, opened again and written to again
BlockStream == << {L_INDI9}, {L_MARR}, {L_PLAC, L_PLACy}, {L_TIMEOK}, {L_MARR, L_CHAN}, {L_PLAC, L_PLACy}, {L_TRLR} >>

Lines == {L_INDI, L_FAM, L_SOUR, L_TRLR, L_BLANK, L_CHIL2, L_CHIL3, L_AKA, L_MARR, L_PLAC, L_SURN1, L_SURN2, L_TIME, L_DATE}

\* ------------------------------------------------------------------------
\* State
\*   file      the lines f.readline() has returned so far
\*   pos       the number of f.readline() calls made
\*   last_obj  the driver's local last_obj
\*   pc, err   where parse_ged_file is: in its loop, returned, or left by
\*             the exception err
\*   trace     the lock, converter and constructor calls made, in order
\*   obj, calls, last_call   an entity whose interface is called directly
\*   fn, arg, out   a function called on its own: its name, its argument and
\*                  what the call gave
\* ------------------------------------------------------------------------
VARIABLES file, pos, last_obj, pc, err, trace, obj, calls, last_call, fn, arg, out, cmd, cv, db

vars == <<file, pos, last_obj, pc, err, trace, obj, calls, last_call, fn, arg, out, cmd, cv, db>>

driverVars == <<file, pos, last_obj, pc, err, trace>>

objVars == <<obj, calls, last_call>>

fnVars == <<fn, arg, out>>

InitFnVars == fn = "none" /\ arg = << >> /\ out = None

\* the command, the converter and the database cache, not yet in use
sysVars == <<cmd, cv, db>>

InitSysVars == cmd = << >> /\ cv = << >> /\ db = << >>

\* what the next f.readline() can return: a further line, or "" at end of file
NextLines ==
    IF file = << >>
    THEN Lines \cup {L_INDI7, L_FAM7, L_INDI9, << >>}
    ELSE IF file[1] = L_INDI9
    THEN (IF Len(file) < Len(BlockStream) THEN BlockStream[Len(file) + 1] ELSE {<< >>})
    ELSE IF file[1] = L_INDI7
         THEN (IF Len(file) < MaxLines THEN PersonLines ELSE {}) \cup {<< >>}
         ELSE IF file[1] = L_FAM7
              THEN (IF Len(file) < Len(FamilyStream) THEN FamilyStream[Len(file) + 1] ELSE {<< >>})
              ELSE (IF Len(file) < MaxLines THEN Lines ELSE {}) \cup {<< >>}

\* the result of the read number n: "" is the read at end of file
Readline(n) == IF n <= Len(file) THEN file[n] ELSE << >>

\* _parse_key_value of every line the model can read
AllLines == Lines \cup PersonLines \cup UNION Range(FamilyStream) \cup UNION Range(BlockStream) \cup {L_INDI7, << >>}

ParsedLines == [l \in AllLines |-> parse_key_value(l)]

\* line 661: f.readline() returns l
Read(l) == pos' = pos + 1 /\ file' = (IF l = << >> THEN file ELSE Append(file, l))

\* the test of `while line` after an iteration that ran to its end
LoopTest(l) == IF l = << >> THEN "returned" ELSE "loop"

NoCall == [op |-> "none", key |-> None, val |-> None, ok |-> TRUE, err |-> ""]

InitObjVars == obj = DBObj("_Person", <<"I", "1">>, 0) /\ calls = 0 /\ last_call = NoCall

Init ==
    /\ file = << >>
    /\ pos = 0
    /\ last_obj = None
    /\ pc = "loop"
    /\ err = ""
    /\ trace = << >>
    /\ InitObjVars
    /\ InitFnVars
    /\ InitSysVars

\* line 664: _parse_key_value raises on a line with fewer than two tokens
MalformedLine ==
    /\ pc = "loop"
    /\ \E l \in NextLines :
        /\ ~ParsedLines[l].ok
        /\ Read(l)
        /\ pc' = "raised"
        /\ err' = ParsedLines[l].err
    /\ UNCHANGED <<last_obj, trace, objVars, fnVars, sysVars>>

\* the terminator without the break of lines 676-677
StopLineNoBreak ==
    /\ pc = "loop"
    /\ \E l \in NextLines :
        LET kv == ParsedLines[l]
        IN /\ kv.ok
           /\ kv.key = KEY_STOP
           /\ Read(l)
           /\ trace' = trace \o Emit(last_obj, pos + 1)
           /\ last_obj' = decide_next_obj(kv.key, kv.val, pos + 1)
           /\ pc' = LoopTest(l)
    /\ UNCHANGED <<err, objVars, fnVars, sysVars>>

\* lines 668-677: the terminator
StopLine ==
    /\ pc = "loop"
    /\ \E l \in NextLines :
        LET kv == ParsedLines[l]
        IN /\ kv.ok
           /\ kv.key = KEY_STOP
           /\ Read(l)
           /\ trace' = trace \o Emit(last_obj, pos + 1)
           /\ last_obj' = AfterEmit(last_obj)
           /\ pc' = "returned"
    /\ UNCHANGED <<err, objVars, fnVars, sysVars>>

\* line 679 keeping the old entity when the kind is not recognised
NewAccumulatorKeepsOld(key, val, serial) == IF decide_next_obj(key, val, serial) = None THEN AfterEmit(last_obj) ELSE decide_next_obj(key, val, serial)

\* _DBObj with its maps and cursor as class attributes, shared by all objects
NewAccumulatorSharedMaps(key, val, serial) ==
    LET fresh == decide_next_obj(key, val, serial)
    IN IF fresh = None \/ last_obj = None
       THEN fresh
       ELSE Some([fresh[1] EXCEPT !.data = last_obj[1].data, !.multi_data = last_obj[1].multi_data,
                                  !.multiline_key = last_obj[1].multiline_key])

\* what line 679 binds to last_obj
NewAccumulator(key, val, serial) == decide_next_obj(key, val, serial)

\* lines 669-674 run on the accumulator just created, ahead of the old one
BoundaryLineSavesNewFirst ==
    /\ pc = "loop"
    /\ \E l \in NextLines :
        LET kv == ParsedLines[l]
        IN /\ kv.ok
           /\ kv.key # KEY_STOP
           /\ is_new_obj_line(kv.key)
           /\ Read(l)
           /\ last_obj' = NewAccumulator(kv.key, kv.val, pos + 1)
           /\ trace' = trace \o (IF last_obj' = None THEN << >> ELSE << NewEvent(last_obj'[1], pos + 1) >>)
                             \o Emit(last_obj', pos + 1) \o Emit(last_obj, pos + 1)
           /\ pc' = LoopTest(l)
    /\ UNCHANGED <<err, objVars, fnVars, sysVars>>

\* lines 668-680: a new-entity boundary
BoundaryLine ==
    /\ pc = "loop"
    /\ \E l \in NextLines :
        LET kv == ParsedLines[l]
        IN /\ kv.ok
           /\ kv.key # KEY_STOP
           /\ is_new_obj_line(kv.key)
           /\ Read(l)
           /\ last_obj' = NewAccumulator(kv.key, kv.val, pos + 1)
           /\ trace' = trace \o Emit(last_obj, pos + 1) \o (IF last_obj' = None THEN << >> ELSE << NewEvent(last_obj'[1], pos + 1) >>)
           /\ pc' = LoopTest(l)
    /\ UNCHANGED <<err, objVars, fnVars, sysVars>>

\* lines 683-684 moved below line 695: the handler runs before the test
HeaderLineInvokesHandler ==
    /\ pc = "loop"
    /\ last_obj = None
    /\ \E l \in NextLines :
        LET kv == ParsedLines[l]
            raises == kv.key \in HandlerKeys /\ ~Handler(kv.key, kv.val).ok
        IN /\ kv.ok
           /\ kv.key # KEY_STOP
           /\ ~is_new_obj_line(kv.key)
           /\ Read(l)
           /\ pc' = (IF raises THEN "raised" ELSE LoopTest(l))
           /\ err' = (IF raises THEN Handler(kv.key, kv.val).err ELSE err)
    /\ UNCHANGED <<last_obj, trace, objVars, fnVars, sysVars>>

\* lines 683-684: a field line while no entity is open
HeaderLine ==
    /\ pc = "loop"
    /\ last_obj = None
    /\ \E l \in NextLines :
        LET kv == ParsedLines[l]
        IN /\ kv.ok
           /\ kv.key # KEY_STOP
           /\ ~is_new_obj_line(kv.key)
           /\ Read(l)
           /\ pc' = LoopTest(l)
    /\ UNCHANGED <<last_obj, err, trace, objVars, fnVars, sysVars>>

\* lines 687-690: a key without handler opens a block
BlockLine ==
    /\ pc = "loop"
    /\ last_obj # None
    /\ \E l \in NextLines :
        LET kv == ParsedLines[l]
            r == set_multiline_key(last_obj[1], Some(kv.key))
        IN /\ kv.ok
           /\ kv.key # KEY_STOP
           /\ ~is_new_obj_line(kv.key)
           /\ kv.key \notin HandlerKeys
           /\ Read(l)
           /\ last_obj' = Some(r.obj)
           /\ pc' = IF r.ok THEN LoopTest(l) ELSE "raised"
           /\ err' = r.err
    /\ UNCHANGED <<trace, objVars, fnVars, sysVars>>

\* lines 692-693 without the test of is_multi
ClearCursorAlways(o, key) == set_multiline_key(o, None)

\* lines 692-693 left out
ClearCursorNever(o, key) == [ok |-> TRUE, err |-> "", obj |-> o]

\* lines 692-693: a flat key clears the cursor before its value is stored
ClearCursor(o, key) == IF IsMulti(key) THEN [ok |-> TRUE, err |-> "", obj |-> o] ELSE set_multiline_key(o, None)

\* lines 687-696: a key with a handler whose handler returns
ValueLine ==
    /\ pc = "loop"
    /\ last_obj # None
    /\ \E l \in NextLines :
        LET kv == ParsedLines[l]
            c == ClearCursor(last_obj[1], kv.key)
            r == IF c.ok THEN set_data(c.obj, kv.key, Handler(kv.key, kv.val).v) ELSE c
        IN /\ kv.ok
           /\ kv.key # KEY_STOP
           /\ ~is_new_obj_line(kv.key)
           /\ kv.key \in HandlerKeys
           /\ Handler(kv.key, kv.val).ok
           /\ Read(l)
           /\ last_obj' = Some(r.obj)
           /\ pc' = IF r.ok THEN LoopTest(l) ELSE "raised"
           /\ err' = r.err
    /\ UNCHANGED <<trace, objVars, fnVars, sysVars>>

\* lines 687-695: a key with a handler whose handler raises
HandlerRaises ==
    /\ pc = "loop"
    /\ last_obj # None
    /\ \E l \in NextLines :
        LET kv == ParsedLines[l]
            c == ClearCursor(last_obj[1], kv.key)
        IN /\ kv.ok
           /\ kv.key # KEY_STOP
           /\ ~is_new_obj_line(kv.key)
           /\ kv.key \in HandlerKeys
           /\ ~Handler(kv.key, kv.val).ok
           /\ Read(l)
           /\ last_obj' = Some(c.obj)
           /\ err' = IF c.ok THEN Handler(kv.key, kv.val).err ELSE c.err
           /\ pc' = "raised"
    /\ UNCHANGED <<trace, objVars, fnVars, sysVars>>

Next == MalformedLine \/ StopLine \/ BoundaryLine \/ HeaderLine \/ BlockLine \/ ValueLine \/ HandlerRaises

Spec == Init /\ [][Next]_vars

\* ------------------------------------------------------------------------
\* parse_ged_file from its first statement: the converters are checked,
\* then the file is opened
\* ------------------------------------------------------------------------
ERR_CONVERTER == "All converters must inherit from BaseConverter"

\* cmd.valid[i]: converter i is an instance of a subclass of BaseConverter;
\* cmd.idx: the element the for loop of lines 652-654 is at
InitEntry ==
    /\ file = << >>
    /\ pos = 0
    /\ last_obj = None
    /\ pc = "check"
    /\ err = ""
    /\ trace = << >>
    /\ InitObjVars
    /\ InitFnVars
    /\ cv = << >>
    /\ db = << >>
    /\ \E v \in [1 .. NumConverters -> BOOLEAN] : cmd = [valid |-> v, idx |-> 1]

\* a check that lets every converter pass
CheckConverterAny ==
    /\ pc = "check"
    /\ cmd.idx <= NumConverters
    /\ cmd' = [cmd EXCEPT !.idx = @ + 1]
    /\ UNCHANGED <<file, pos, last_obj, pc, err, trace, objVars, fnVars, cv, db>>

\* lines 652-654: one round of the loop over the converters
CheckConverter ==
    /\ pc = "check"
    /\ cmd.idx <= NumConverters
    /\ IF cmd.valid[cmd.idx]
       THEN /\ cmd' = [cmd EXCEPT !.idx = @ + 1]
            /\ UNCHANGED <<pc, err>>
       ELSE /\ pc' = "raised"
            /\ err' = ERR_CONVERTER
            /\ UNCHANGED cmd
    /\ UNCHANGED <<file, pos, last_obj, trace, objVars, fnVars, cv, db>>

\* lines 656-657: the loop over the converters is through, the file is opened
OpenFile ==
    /\ pc = "check"
    /\ cmd.idx > NumConverters
    /\ pc' = "loop"
    /\ UNCHANGED <<file, pos, last_obj, err, trace, objVars, fnVars, sysVars>>

NextEntry == CheckConverter \/ OpenFile \/ Next

SpecEntry == InitEntry /\ [][NextEntry]_vars

\* ------------------------------------------------------------------------
\* The driver with converters whose save call may raise
\* ------------------------------------------------------------------------
\* the save call of converter c on the locked entity o raises
RaiseEvent(o, c, at) == [ev |-> "raise", conv |-> c, ent |-> o.serial, at |-> at, obj |-> o]

\* _save with a try / except around the call: the converters after c are
\* still called before the error leaves
SaveRaisesLoopGoesOn ==
    /\ pc = "loop"
    /\ last_obj # None
    /\ \E l \in NextLines :
        LET kv == ParsedLines[l]
        IN /\ kv.ok
           /\ is_new_obj_line(kv.key) \/ kv.key = KEY_STOP
           /\ Read(l)
           /\ \E c \in 1..NumConverters :
                trace' = trace \o SubSeq(Emit(last_obj, pos + 1), 1, 1 + c)
                               \o << RaiseEvent(lock(last_obj[1]), c, pos + 1) >>
                               \o SubSeq(Emit(last_obj, pos + 1), 2 + c, 1 + NumConverters)
           /\ last_obj' = AfterEmit(last_obj)
           /\ pc' = "raised"
           /\ err' = "ConverterError"
    /\ UNCHANGED <<objVars, fnVars, sysVars>>

\* lines 634-638 called from line 674: the save call of converter c raises,
\* the error leaves _save and parse_ged_file
SaveRaises ==
    /\ pc = "loop"
    /\ last_obj # None
    /\ \E l \in NextLines :
        LET kv == ParsedLines[l]
        IN /\ kv.ok
           /\ is_new_obj_line(kv.key) \/ kv.key = KEY_STOP
           /\ Read(l)
           /\ \E c \in 1..NumConverters :
                trace' = trace \o SubSeq(Emit(last_obj, pos + 1), 1, 1 + c)
                               \o << RaiseEvent(lock(last_obj[1]), c, pos + 1) >>
           /\ last_obj' = AfterEmit(last_obj)
           /\ pc' = "raised"
           /\ err' = "ConverterError"
    /\ UNCHANGED <<objVars, fnVars, sysVars>>

NextSink == Next \/ SaveRaises

SpecSink == Init /\ [][NextSink]_vars

\* ------------------------------------------------------------------------
\* The accumulator's interface on its own: any caller holding an entity
\* (the driver, or a converter that was handed one) may call lock,
\* set_multiline_key and set_data in any order.
\* ------------------------------------------------------------------------
CursorArgs == {None, Some(<<"M", "A", "R", "R">>), Some(<<"B", "I", "R", "T">>), Some(<< >>)}

DataKeys == {K_CHIL, K_PLAC, K_SURN}

DataVals == {StrV(<<"x">>), StrV(<<"y">>)}

InitApi ==
    /\ file = << >>
    /\ pos = 0
    /\ last_obj = None
    /\ pc = "api"
    /\ err = ""
    /\ trace = << >>
    /\ obj \in {DBObj("_Person", <<"I", "1">>, 0), DBObj("_Family", <<"F", "1">>, 0)}
    /\ calls = 0
    /\ last_call = NoCall
    /\ InitFnVars
    /\ InitSysVars

CallLock ==
    /\ pc = "api"
    /\ calls < MaxCalls
    /\ calls' = calls + 1
    /\ obj' = lock(obj)
    /\ last_call' = [op |-> "lock", key |-> None, val |-> None, ok |-> TRUE, err |-> ""]
    /\ UNCHANGED <<driverVars, fnVars, sysVars>>

CallSetMultilineKey ==
    /\ pc = "api"
    /\ calls < MaxCalls
    /\ calls' = calls + 1
    /\ \E key \in CursorArgs :
        LET r == set_multiline_key(obj, key)
        IN /\ obj' = r.obj
           /\ last_call' = [op |-> "set_multiline_key", key |-> key, val |-> None, ok |-> r.ok, err |-> r.err]
    /\ UNCHANGED <<driverVars, fnVars, sysVars>>

CallSetData ==
    /\ pc = "api"
    /\ calls < MaxCalls
    /\ calls' = calls + 1
    /\ \E key \in DataKeys, parsed_data \in DataVals :
        LET r == set_data(obj, key, parsed_data)
        IN /\ obj' = r.obj
           /\ last_call' = [op |-> "set_data", key |-> Some(key), val |-> Some(parsed_data), ok |-> r.ok, err |-> r.err]
    /\ UNCHANGED <<driverVars, fnVars, sysVars>>

NextApi == CallLock \/ CallSetMultilineKey \/ CallSetData

SpecApi == InitApi /\ [][NextApi]_vars

\* ------------------------------------------------------------------------
\* The date functions on their own: one call on one raw date string
\* ------------------------------------------------------------------------
T_abt == <<"a", "b", "t">>

T_15 == <<"1", "5">>

T_Jan == <<"J", "a", "n">>

T_1920 == <<"1", "9", "2", "0">>

T_1850 == <<"1", "8", "5", "0">>

T_estimated == <<"(", "e", "s", "t", "i", "m", "a", "t", "e", "d", ")">>

T_185 == <<"1", "8", "5">>

T_open == <<"(">>

T_close == <<")">>

T_1st == <<"1", "s", "t">>

Tokens == {T_abt, T_15, T_Jan, T_1920, T_1850, T_estimated, T_185, T_open, T_close, T_1st}

\* the raw strings: at most MaxTokens tokens joined by single spaces
DateStrings == {Join(ts, " ") : ts \in UNION {[1..n -> Tokens] : n \in 0..MaxTokens}}

InitFn ==
    /\ file = << >>
    /\ pos = 0
    /\ last_obj = None
    /\ pc = "fn"
    /\ err = ""
    /\ trace = << >>
    /\ InitObjVars
    /\ fn = "none"
    /\ arg \in DateStrings
    /\ out = None
    /\ InitSysVars

\* _handle_date(arg)
ApplyHandleDate ==
    /\ pc = "fn"
    /\ fn = "none"
    /\ fn' = "_handle_date"
    /\ out' = handle_date(arg)
    /\ UNCHANGED <<arg, driverVars, objVars, sysVars>>

\* utils.parse_partial_date(arg)
ApplyParsePartialDate ==
    /\ pc = "fn"
    /\ fn = "none"
    /\ fn' = "parse_partial_date"
    /\ out' = Returned(parse_partial_date(arg))
    /\ UNCHANGED <<arg, driverVars, objVars, sysVars>>

\* utils.py line 150: the bracket loop is entered with date_string = arg
BeginStrip ==
    /\ pc = "fn"
    /\ fn = "none"
    /\ fn' = "strip_loop"
    /\ out' = Returned(arg)
    /\ UNCHANGED <<arg, driverVars, objVars, sysVars>>

\* line 156 with date_string[iclose:] in place of date_string[iclose + 1:]
StripStepKeepsClose ==
    /\ pc = "fn"
    /\ fn = "strip_loop"
    /\ LET iopen == Find(out.v, "(")
           iclose == Find(out.v, ")")
       IN /\ iopen > -1 /\ iclose > -1 /\ iopen < iclose
          /\ out' = Returned(SubSeq(out.v, 1, iopen) \o SubSeq(out.v, iclose + 1, Len(out.v)))
    /\ UNCHANGED <<fn, arg, driverVars, objVars, sysVars>>

\* lines 151-156: one iteration that cuts from the first "(" to the first ")"
StripStep ==
    /\ pc = "fn"
    /\ fn = "strip_loop"
    /\ LET iopen == Find(out.v, "(")
           iclose == Find(out.v, ")")
       IN /\ iopen > -1 /\ iclose > -1 /\ iopen < iclose
          /\ out' = Returned(SubSeq(out.v, 1, iopen) \o SubSeq(out.v, iclose + 2, Len(out.v)))
    /\ UNCHANGED <<fn, arg, driverVars, objVars, sysVars>>

\* lines 154-155 and 157-159: either break
StripBreak ==
    /\ pc = "fn"
    /\ fn = "strip_loop"
    /\ LET iopen == Find(out.v, "(")
           iclose == Find(out.v, ")")
       IN ~(iopen > -1 /\ iclose > -1 /\ iopen < iclose)
    /\ fn' = "stripped"
    /\ UNCHANGED <<out, arg, driverVars, objVars, sysVars>>

NextFn == ApplyHandleDate \/ ApplyParsePartialDate \/ BeginStrip \/ StripStep \/ StripBreak

SpecFn == InitFn /\ [][NextFn]_vars

\* ------------------------------------------------------------------------
\* bin/ged/main.py cmd_convert (and main.py main, the same code)
\* ------------------------------------------------------------------------
\* the keys of _CONVERTERS in the order of the dict
ConvOrder == <<"print", "sqlite", "familyCsv">>

\* the flush calls a converter has received once clear_existing_data returns:
\* FamilyCsv.clear_existing_data calls self.flush(), the file that load_arg
\* opened exists; the two others do not flush
clear_existing_data(name, flushes) == IF name = "familyCsv" THEN [flushes EXCEPT ![name] = @ + 1] ELSE flushes

InitCmd ==
    /\ file = << >>
    /\ pos = 0
    /\ last_obj = None
    /\ pc = "cmd"
    /\ err = ""
    /\ trace = << >>
    /\ InitObjVars
    /\ InitFnVars
    /\ cv = << >>
    /\ db = << >>
    /\ cmd \in {[replace |-> r, sel |-> S, at |-> "register", idx |-> 1, converters |-> << >>,
                 flushes |-> [n \in Range(ConvOrder) |-> 0], parsed |-> "none", flush_raised |-> FALSE] :
                r \in BOOLEAN, S \in SUBSET Range(ConvOrder)}

\* lines 198-199: the converter was not asked for
CmdSkip ==
    /\ pc = "cmd"
    /\ cmd.at = "register"
    /\ cmd.idx <= Len(ConvOrder)
    /\ ConvOrder[cmd.idx] \notin cmd.sel
    /\ cmd' = [cmd EXCEPT !.idx = @ + 1]
    /\ UNCHANGED <<driverVars, objVars, fnVars, cv, db>>

\* lines 201-212: instantiate, load_arg, clear_existing_data under --replace
CmdRegister ==
    /\ pc = "cmd"
    /\ cmd.at = "register"
    /\ cmd.idx <= Len(ConvOrder)
    /\ ConvOrder[cmd.idx] \in cmd.sel
    /\ cmd' = [cmd EXCEPT !.idx = @ + 1,
                          !.converters = Append(@, ConvOrder[cmd.idx]),
                          !.flushes = IF cmd.replace THEN clear_existing_data(ConvOrder[cmd.idx], @) ELSE @]
    /\ UNCHANGED <<driverVars, objVars, fnVars, cv, db>>

\* lines 215-218: the default converter, then the try block is entered
CmdDefault ==
    /\ pc = "cmd"
    /\ cmd.at = "register"
    /\ cmd.idx > Len(ConvOrder)
    /\ cmd' = [cmd EXCEPT !.at = "parse", !.converters = IF @ = << >> THEN << "print" >> ELSE @]
    /\ UNCHANGED <<driverVars, objVars, fnVars, cv, db>>

\* line 220: parse_ged_file returns
CmdParseReturns ==
    /\ pc = "cmd"
    /\ cmd.at = "parse"
    /\ cmd' = [cmd EXCEPT !.at = "flush", !.idx = 1, !.parsed = "returned"]
    /\ UNCHANGED <<driverVars, objVars, fnVars, cv, db>>

\* line 220: parse_ged_file raises part-way through the file
CmdParseRaises ==
    /\ pc = "cmd"
    /\ cmd.at = "parse"
    /\ cmd' = [cmd EXCEPT !.at = "flush", !.idx = 1, !.parsed = "raised"]
    /\ UNCHANGED <<driverVars, objVars, fnVars, cv, db>>

\* lines 223-224: converter.flush() raises (the write or the commit fails);
\* PrintConverter inherits a flush that does nothing
CmdFlushRaises ==
    /\ pc = "cmd"
    /\ cmd.at = "flush"
    /\ cmd.idx <= Len(cmd.converters)
    /\ cmd.converters[cmd.idx] # "print"
    /\ cmd' = [cmd EXCEPT !.at = "raised", !.flushes[cmd.converters[cmd.idx]] = @ + 1, !.flush_raised = TRUE]
    /\ UNCHANGED <<driverVars, objVars, fnVars, cv, db>>

\* lines 223-224: converter.flush() returns
CmdFlush ==
    /\ pc = "cmd"
    /\ cmd.at = "flush"
    /\ cmd.idx <= Len(cmd.converters)
    /\ cmd' = [cmd EXCEPT !.idx = @ + 1, !.flushes[cmd.converters[cmd.idx]] = @ + 1]
    /\ UNCHANGED <<driverVars, objVars, fnVars, cv, db>>

\* the end of the finally block: the error of parse_ged_file, if any, goes on
CmdFinish ==
    /\ pc = "cmd"
    /\ cmd.at = "flush"
    /\ cmd.idx > Len(cmd.converters)
    /\ cmd' = [cmd EXCEPT !.at = IF cmd.parsed = "raised" THEN "raised" ELSE "done"]
    /\ UNCHANGED <<driverVars, objVars, fnVars, cv, db>>

NextCmd == CmdSkip \/ CmdRegister \/ CmdDefault \/ CmdParseReturns \/ CmdParseRaises \/ CmdFlushRaises \/ CmdFlush \/ CmdFinish

SpecCmd == InitCmd /\ [][NextCmd]_vars

\* ------------------------------------------------------------------------
\* converters.py: SqliteConverter and FamilyCsv, rows buffered and written
\* ------------------------------------------------------------------------
\* _CHUNK_SIZE
CHUNK_SIZE == 100

\* a row stands for the entity it was made from: the n-th person or family
\* the converter accepted; out_p and out_f are the rows written, in order
NewConverter(kind) ==
    [kind |-> kind, at |-> "open", saves |-> 0,
     p_rows |-> << >>, f_rows |-> << >>, out_p |-> << >>, out_f |-> << >>,
     acc_p |-> << >>, acc_f |-> << >>]

InitConv ==
    /\ file = << >>
    /\ pos = 0
    /\ last_obj = None
    /\ pc = "conv"
    /\ err = ""
    /\ trace = << >>
    /\ InitObjVars
    /\ InitFnVars
    /\ cmd = << >>
    /\ db = << >>
    /\ cv \in {NewConverter("sqlite"), NewConverter("csv")}

\* SqliteConverter.save_person; FamilyCsv.save_person is `pass`
save_person(c) ==
    LET row == Len(c.acc_p) + 1
        rows == Append(c.p_rows, row)
    IN IF c.kind = "csv"
       THEN [c EXCEPT !.saves = @ + 1, !.acc_p = Append(@, row)]
       ELSE IF Len(rows) >= CHUNK_SIZE
            THEN [c EXCEPT !.saves = @ + 1, !.acc_p = Append(@, row), !.out_p = @ \o rows, !.p_rows = << >>]
            ELSE [c EXCEPT !.saves = @ + 1, !.acc_p = Append(@, row), !.p_rows = rows]

\* save_family writing only once the buffer has grown past the chunk size
save_family_late(c) ==
    LET row == Len(c.acc_f) + 1
        rows == Append(c.f_rows, row)
    IN IF Len(rows) > CHUNK_SIZE
       THEN [c EXCEPT !.saves = @ + 1, !.acc_f = Append(@, row), !.out_f = @ \o rows, !.f_rows = << >>]
       ELSE [c EXCEPT !.saves = @ + 1, !.acc_f = Append(@, row), !.f_rows = rows]

\* SqliteConverter.save_family and FamilyCsv.save_family
save_family(c) ==
    LET row == Len(c.acc_f) + 1
        rows == Append(c.f_rows, row)
    IN IF Len(rows) >= CHUNK_SIZE
       THEN [c EXCEPT !.saves = @ + 1, !.acc_f = Append(@, row), !.out_f = @ \o rows, !.f_rows = << >>]
       ELSE [c EXCEPT !.saves = @ + 1, !.acc_f = Append(@, row), !.f_rows = rows]

\* SqliteConverter.flush and FamilyCsv.flush: write what is buffered, close
flush(c) ==
    [c EXCEPT !.at = "flushed", !.out_p = @ \o c.p_rows, !.p_rows = << >>,
              !.out_f = @ \o c.f_rows, !.f_rows = << >>]

CvSavePerson ==
    /\ pc = "conv"
    /\ cv.at = "open"
    /\ cv.saves < MaxSaves
    /\ cv' = save_person(cv)
    /\ UNCHANGED <<driverVars, objVars, fnVars, cmd, db>>

CvSaveFamily ==
    /\ pc = "conv"
    /\ cv.at = "open"
    /\ cv.saves < MaxSaves
    /\ cv' = save_family(cv)
    /\ UNCHANGED <<driverVars, objVars, fnVars, cmd, db>>

\* SqliteConverter.flush without lines 309-310
CvFlushPeopleOnly ==
    /\ pc = "conv"
    /\ cv.at = "open"
    /\ cv' = [cv EXCEPT !.at = "flushed", !.out_p = @ \o cv.p_rows, !.p_rows = << >>]
    /\ UNCHANGED <<driverVars, objVars, fnVars, cmd, db>>

CvFlush ==
    /\ pc = "conv"
    /\ cv.at = "open"
    /\ cv' = flush(cv)
    /\ UNCHANGED <<driverVars, objVars, fnVars, cmd, db>>

NextConv == CvSavePerson \/ CvSaveFamily \/ CvFlush

SpecConv == InitConv /\ [][NextConv]_vars

\* ------------------------------------------------------------------------
\* bin/ged/main.py: ensure_database, the parse skipped when the hash is known
\* ------------------------------------------------------------------------
\* the data files ensure_database is called with, and what hash_file can
\* return for them
DataFiles == {"a.ged", "b.ged"}

Hashes == 1 .. NumHashes

\* db.stored[f]: the row of table hash whose source is f, in f's database
\* db.cur[f]: hash_file(f); db.log: how each call of ensure_database went
InitDb ==
    /\ file = << >>
    /\ pos = 0
    /\ last_obj = None
    /\ pc = "db"
    /\ err = ""
    /\ trace = << >>
    /\ InitObjVars
    /\ InitFnVars
    /\ cmd = << >>
    /\ cv = << >>
    /\ \E c \in [DataFiles -> Hashes] :
          db = [stored |-> [f \in DataFiles |-> None], cur |-> c, at |-> "idle",
                datafile |-> "", current_hash |-> 0, log |-> << >>]

\* SqliteConverter.last_hash
last_hash(f) == db.stored[f]

\* the bytes of a data file change between two calls
DbEdit ==
    /\ pc = "db"
    /\ db.at = "idle"
    /\ \E f \in DataFiles, h \in Hashes :
          /\ h # db.cur[f]
          /\ db' = [db EXCEPT !.cur[f] = h]
    /\ UNCHANGED <<driverVars, objVars, fnVars, cmd, cv>>

\* ensure_database, the else branch: the hashes agree
DbUpToDate ==
    /\ pc = "db"
    /\ db.at = "idle"
    /\ Len(db.log) < MaxRuns
    /\ \E f \in DataFiles :
          /\ Some(db.cur[f]) = last_hash(f)
          /\ db' = [db EXCEPT !.datafile = f, !.current_hash = db.cur[f],
                              !.log = Append(@, [datafile |-> f, how |-> "skipped"])]
    /\ UNCHANGED <<driverVars, objVars, fnVars, cmd, cv>>

\* ensure_database up to the call of parse_ged_file
DbStartParse ==
    /\ pc = "db"
    /\ db.at = "idle"
    /\ Len(db.log) < MaxRuns
    /\ \E f \in DataFiles :
          /\ Some(db.cur[f]) # last_hash(f)
          /\ db' = [db EXCEPT !.datafile = f, !.current_hash = db.cur[f], !.at = "parsing"]
    /\ UNCHANGED <<driverVars, objVars, fnVars, cmd, cv>>

\* parse_ged_file returns: set_last_hash, then flush
DbParseReturns ==
    /\ pc = "db"
    /\ db.at = "parsing"
    /\ db' = [db EXCEPT !.stored[db.datafile] = Some(db.current_hash), !.at = "idle",
                        !.log = Append(@, [datafile |-> db.datafile, how |-> "returned"])]
    /\ UNCHANGED <<driverVars, objVars, fnVars, cmd, cv>>

\* ensure_database with set_last_hash moved into the finally block
DbParseRaisesStoresHash ==
    /\ pc = "db"
    /\ db.at = "parsing"
    /\ db' = [db EXCEPT !.stored[db.datafile] = Some(db.current_hash), !.at = "idle",
                        !.log = Append(@, [datafile |-> db.datafile, how |-> "raised"])]
    /\ UNCHANGED <<driverVars, objVars, fnVars, cmd, cv>>

\* parse_ged_file raises: set_last_hash is passed over, flush runs
DbParseRaises ==
    /\ pc = "db"
    /\ db.at = "parsing"
    /\ db' = [db EXCEPT !.at = "idle",
                        !.log = Append(@, [datafile |-> db.datafile, how |-> "raised"])]
    /\ UNCHANGED <<driverVars, objVars, fnVars, cmd, cv>>

NextDb == DbEdit \/ DbUpToDate \/ DbStartParse \/ DbParseReturns \/ DbParseRaises

SpecDb == InitDb /\ [][NextDb]_vars

\* ------------------------------------------------------------------------
\* bin/ged/main.py: ensure_database, one call that parses: the rows of the
\* SqliteConverter and the row of table hash
\* ------------------------------------------------------------------------
\* db.stored: the row of table hash for the data file; cv: the converter
\* ensure_database made; db.at: how far the call has come
InitEnsure ==
    /\ file = << >>
    /\ pos = 0
    /\ last_obj = None
    /\ pc = "ensure"
    /\ err = ""
    /\ trace = << >>
    /\ InitObjVars
    /\ InitFnVars
    /\ cmd = << >>
    /\ cv = NewConverter("sqlite")
    /\ \E old \in {None, Some(1)} :
          db = [stored |-> old, current_hash |-> 2, at |-> "parsing"]

\* parse_ged_file emits a person to the converter
EnsSavePerson ==
    /\ pc = "ensure"
    /\ db.at = "parsing"
    /\ cv.saves < MaxSaves
    /\ cv' = save_person(cv)
    /\ UNCHANGED <<driverVars, objVars, fnVars, cmd, db>>

\* parse_ged_file emits a family to the converter
EnsSaveFamily ==
    /\ pc = "ensure"
    /\ db.at = "parsing"
    /\ cv.saves < MaxSaves
    /\ cv' = save_family(cv)
    /\ UNCHANGED <<driverVars, objVars, fnVars, cmd, db>>

\* parse_ged_file returns; set_last_hash executes and commits
EnsSetLastHash ==
    /\ pc = "ensure"
    /\ db.at = "parsing"
    /\ db' = [db EXCEPT !.stored = Some(db.current_hash), !.at = "hashed"]
    /\ UNCHANGED <<driverVars, objVars, fnVars, cmd, cv>>

\* parse_ged_file raises; set_last_hash is passed over
EnsParseRaises ==
    /\ pc = "ensure"
    /\ db.at = "parsing"
    /\ db' = [db EXCEPT !.at = "raised"]
    /\ UNCHANGED <<driverVars, objVars, fnVars, cmd, cv>>

\* the finally block: flush returns
EnsFlush ==
    /\ pc = "ensure"
    /\ db.at \in {"hashed", "raised"}
    /\ cv' = flush(cv)
    /\ db' = [db EXCEPT !.at = "done"]
    /\ UNCHANGED <<driverVars, objVars, fnVars, cmd>>

\* the finally block: flush has rows to write and its first executemany or
\* commit raises; the rows still buffered are written nowhere
EnsFlushRaises ==
    /\ pc = "ensure"
    /\ db.at \in {"hashed", "raised"}
    /\ cv.p_rows # << >> \/ cv.f_rows # << >>
    /\ db' = [db EXCEPT !.at = "flush_raised"]
    /\ UNCHANGED <<driverVars, objVars, fnVars, cmd, cv>>

NextEnsure ==
    EnsSavePerson \/ EnsSaveFamily \/ EnsSetLastHash \/ EnsParseRaises \/ EnsFlush \/ EnsFlushRaises

SpecEnsure == InitEnsure /\ [][NextEnsure]_vars

\* ------------------------------------------------------------------------
\* bin/ged/main.py cmd_traverse and tools/traverse.py Trawler.trawl: the
\* loop over the descendants of the given people
\* ------------------------------------------------------------------------
\* the ids of the rows of table people and of table families; a link of 0
\* names no row
PeopleIds == 1 .. NumPeople

FamilyIds == 1 .. NumFamilies

\* Database.get_children_by_parents: the people whose childhood family has
\* one of ids as husband or wife
get_children_by_parents(ids) ==
    {p \in PeopleIds : \E f \in FamilyIds :
        /\ db.childhood_family_id[p] = f
        /\ (db.husband_id[f] \in ids \/ db.wife_id[f] \in ids)}

\* db: the two tables; cmd.stack: the local stack, which holds every id once
\* because the query returns a row of table people at most once; cmd.odd:
\* whether the number of rounds made is odd
InitTrawl ==
    /\ file = << >>
    /\ pos = 0
    /\ last_obj = None
    /\ pc = "trawl"
    /\ err = ""
    /\ trace = << >>
    /\ InitObjVars
    /\ InitFnVars
    /\ cv = << >>
    /\ \E c \in [PeopleIds -> FamilyIds \cup {0}], h \in [FamilyIds -> PeopleIds \cup {0}], w \in [FamilyIds -> PeopleIds \cup {0}] :
          db = [childhood_family_id |-> c, husband_id |-> h, wife_id |-> w]
    /\ \E ids \in (SUBSET PeopleIds) \ {{}} : cmd = [stack |-> ids, odd |-> FALSE]

\* one round of `while stack`: the stack becomes the children found
TrawlRound ==
    /\ pc = "trawl"
    /\ cmd.stack # {}
    /\ cmd' = [stack |-> get_children_by_parents(cmd.stack), odd |-> ~cmd.odd]
    /\ UNCHANGED <<driverVars, objVars, fnVars, cv, db>>

\* the test of `while stack` fails
TrawlEnds ==
    /\ pc = "trawl"
    /\ cmd.stack = {}
    /\ pc' = "done"
    /\ UNCHANGED <<file, pos, last_obj, err, trace, objVars, fnVars, sysVars>>

NextTrawl == TrawlRound \/ TrawlEnds

SpecTrawl == InitTrawl /\ [][NextTrawl]_vars /\ WF_vars(NextTrawl)

\* ------------------------------------------------------------------------
\* What the input says, read off the file alone
\* ------------------------------------------------------------------------
POk(n) == ParsedLines[Readline(n)].ok

PKey(n) == ParsedLines[Readline(n)].key

PVal(n) == ParsedLines[Readline(n)].val

IsBoundaryAt(n) == POk(n) /\ Count(PKey(n), "@") = 2

IsStopAt(n) == POk(n) /\ PKey(n) = KEY_STOP

\* the converter method that the value token of boundary line n selects
KindAt(n) == IF PVal(n) = K_INDI THEN "save_person" ELSE IF PVal(n) = K_FAM THEN "save_family" ELSE "none"

PrevBoundary(n) == IF \E m \in 1..(n - 1) : IsBoundaryAt(m) THEN CHOOSE m \in 1..(n - 1) : IsBoundaryAt(m) /\ \A k \in (m + 1)..(n - 1) : ~IsBoundaryAt(k) ELSE 0

\* the boundary line of the entity open when line n is read, 0 when none is open
OpenAt(n) == IF PrevBoundary(n) > 0 /\ KindAt(PrevBoundary(n)) # "none" THEN PrevBoundary(n) ELSE 0

SaveEvents == {"save_family", "save_person"}

Summary(e) == <<e.ev, e.conv, e.ent, e.obj.allow_changes>>

\* lock and converter calls made while line n was handled, in order
CallsAt(n) == LET evs == SelectSeq(trace, LAMBDA e : e.at = n /\ e.ev # "new") IN [i \in DOMAIN evs |-> Summary(evs[i])]

\* lock, then one call per converter in list order, on the locked entity m
ExpectedEmit(m) == << <<"lock", 0, m, FALSE>> >> \o [c \in 1..NumConverters |-> <<KindAt(m), c, m, FALSE>>]

\* handler results of the lines from..to that carry key k, in line order
RECURSIVE Occurrences(_, _, _)
Occurrences(k, from, to) == IF from > to THEN << >> ELSE (IF POk(from) /\ PKey(from) = k THEN << Handler(k, PVal(from)).v >> ELSE << >>) \o Occurrences(k, from + 1, to)

\* every entity the driver has held, with the last line it was open for
Entities == (IF last_obj = None THEN {} ELSE {[o |-> last_obj[1], upto |-> pos]}) \cup {[o |-> trace[i].obj, upto |-> trace[i].at - 1] : i \in {j \in DOMAIN trace : trace[j].ev \in SaveEvents}}

\* ------------------------------------------------------------------------
\* C1: at every boundary line read while an entity is open, that entity is
\* locked and then passed once to each converter, to save_family iff its own
\* boundary value was FAM and to save_person iff it was INDI, and it is
\* passed at no other line.
\* ------------------------------------------------------------------------
C1_BoundaryEmitsOnce ==
    \A n \in 1..pos : (IsBoundaryAt(n) /\ OpenAt(n) > 0) =>
        /\ CallsAt(n) = ExpectedEmit(OpenAt(n))
        /\ \A i \in DOMAIN trace : (trace[i].ent = OpenAt(n) /\ trace[i].ev # "new") => trace[i].at = n

C1_Witness == \E n \in 1..pos : IsBoundaryAt(n) /\ OpenAt(n) > 0 /\ pos > n /\ KindAt(OpenAt(n)) = "save_family"

\* ------------------------------------------------------------------------
\* C2: a TRLR line locks and emits the pending entity (if any) as a boundary
\* does, and then the driver has returned: that line is the last one read
\* and the last one with converter calls, also when the file could go on.
\* ------------------------------------------------------------------------
C2_StopEmitsAndHalts ==
    \A n \in 1..pos : IsStopAt(n) =>
        /\ pos = n
        /\ pc = "returned"
        /\ CallsAt(n) = (IF OpenAt(n) > 0 THEN ExpectedEmit(OpenAt(n)) ELSE << >>)
        /\ \A i \in DOMAIN trace : trace[i].at <= n

C2_Witness == \E n \in 1..pos : IsStopAt(n) /\ OpenAt(n) > 0 /\ n < MaxLines /\ pc = "returned"

\* ------------------------------------------------------------------------
\* C3: a line with fewer than two space-separated tokens is a no-op: no
\* error, entity and converter calls unchanged, and the driver goes on.
\* ------------------------------------------------------------------------
C3_ShortLineIsNoOp ==
    [][(pc = "loop" /\ pos' = pos + 1 /\ Len(Split(Readline(pos)', " ")) < 2) =>
        (pc' # "raised" /\ err' = "" /\ last_obj' = last_obj /\ trace' = trace)]_vars

\* ------------------------------------------------------------------------
\* C4: when the driver has come to the end of a finite stream (by TRLR or by
\* exhausting the file), every entity it created has been locked and passed
\* to every converter.
\* ------------------------------------------------------------------------
C4_EveryEntityEmitted ==
    (pc = "returned" \/ (pc = "raised" /\ pos > Len(file))) =>
        \A i \in DOMAIN trace : trace[i].ev = "new" =>
            \A c \in 1..NumConverters : \E j \in DOMAIN trace :
                /\ j > i
                /\ trace[j].ev \in SaveEvents
                /\ trace[j].ent = trace[i].ent
                /\ trace[j].conv = c
                /\ ~trace[j].obj.allow_changes

\* ------------------------------------------------------------------------
\* C5: on a locked entity every set_data and set_multiline_key call fails
\* with the ValueError ERR_LOCKED and changes nothing of the entity, and no
\* call unlocks it.
\* ------------------------------------------------------------------------
C5_LockedIsImmutable ==
    [][~obj.allow_changes =>
        /\ obj' = obj
        /\ (last_call'.op \in {"set_data", "set_multiline_key"} => (~last_call'.ok /\ last_call'.err = ERR_LOCKED))]_vars

C5_Witness == ~obj.allow_changes /\ last_call.op = "set_data" /\ ~last_call.ok /\ obj.data # EmptyDict /\ obj.multiline_key # None

\* ------------------------------------------------------------------------
\* C6: whenever the driver is about to handle a line, the entity it holds as
\* current is unlocked, and the driver never ends with the locked-entity
\* ValueError.
\* ------------------------------------------------------------------------
C6_DriverWritesUnlocked ==
    /\ (pc = "loop" /\ last_obj # None) => last_obj[1].allow_changes
    /\ err # ERR_LOCKED

C6_Witness ==
    /\ pc = "loop"
    /\ last_obj # None
    /\ last_obj[1].data # EmptyDict
    /\ \E i \in DOMAIN trace : trace[i].ev = "lock"

\* ------------------------------------------------------------------------
\* C7: a finalized entity is passed to converter 1, 2, .., n in list order,
\* and all n calls are made before the next accumulator is created.
\* ------------------------------------------------------------------------
C7_ConvertersInOrder ==
    /\ \A i \in DOMAIN trace : trace[i].ev = "lock" =>
        /\ i + NumConverters <= Len(trace)
        /\ \A c \in 1..NumConverters :
            /\ trace[i + c].ev \in SaveEvents
            /\ trace[i + c].conv = c
            /\ trace[i + c].ent = trace[i].ent
    /\ \A j \in DOMAIN trace : trace[j].ev = "new" =>
        \A k \in 1..(j - 1) : trace[k].ev = "new" =>
            Cardinality({i \in 1..(j - 1) : trace[i].ev \in SaveEvents /\ trace[i].ent = trace[k].ent}) = NumConverters
    /\ \A i, j \in DOMAIN trace : (trace[i].ev \in SaveEvents /\ trace[j].ev = "new" /\ trace[i].ent < trace[j].ent) => i < j

C7_Witness == Cardinality({i \in DOMAIN trace : trace[i].ev = "new"}) >= 2 /\ NumConverters >= 2

\* ------------------------------------------------------------------------
\* C8: for the list tags CHIL and _AKA, the list an entity stores holds the
\* handler result of every line of the entity carrying that tag, in line
\* order, and no nested block holds an entry for the tag.
\* ------------------------------------------------------------------------
ListOf(o, k) == IF k \in DOMAIN o.data THEN o.data[k].v ELSE << >>

C8_ListTagsAccumulate ==
    \A e \in Entities : \A k \in GED_LIST_KEYS :
        /\ ListOf(e.o, k) = Occurrences(k, e.o.serial + 1, e.upto)
        /\ \A b \in DOMAIN e.o.multi_data : k \notin DOMAIN e.o.multi_data[b]

C8_Witness ==
    /\ last_obj # None
    /\ \E a, b, c \in (last_obj[1].serial + 1)..pos :
        /\ a < b /\ b < c
        /\ PKey(a) = K_CHIL /\ PKey(c) = K_CHIL /\ PVal(a) # PVal(c)
        /\ PKey(b) \notin HandlerKeys

\* ------------------------------------------------------------------------
\* C9: for a registered flat tag other than CHIL and _AKA, the flat map of an
\* entity holds the handler result of the tag's last line in the entity (and
\* no entry when the tag has no line).
\* ------------------------------------------------------------------------
ScalarKeys == {k \in HandlerKeys : ~IsMulti(k) /\ k \notin GED_LIST_KEYS}

C9_ScalarLastWriteWins ==
    \A e \in Entities : \A k \in ScalarKeys :
        LET occ == Occurrences(k, e.o.serial + 1, e.upto)
        IN IF occ = << >> THEN k \notin DOMAIN e.o.data ELSE k \in DOMAIN e.o.data /\ e.o.data[k] = occ[Len(occ)]

C9_Witness ==
    /\ last_obj # None
    /\ Len(Occurrences(K_SURN, last_obj[1].serial + 1, pos)) >= 2
    /\ Occurrences(K_SURN, last_obj[1].serial + 1, pos)[1] # Occurrences(K_SURN, last_obj[1].serial + 1, pos)[2]

\* ------------------------------------------------------------------------
\* C10: while the block cursor names a block B, every set_data write goes
\* into B's field map and leaves the flat map unchanged, and the cursor
\* changes only through set_multiline_key.
\* ------------------------------------------------------------------------
C10_StickyBlockRouting ==
    [][/\ (obj.multiline_key # None /\ calls' = calls + 1 /\ last_call'.op = "set_data" /\ last_call'.ok) =>
            /\ obj'.data = obj.data
            /\ obj.multiline_key[1] \in DOMAIN obj'.multi_data
            /\ last_call'.key[1] \in DOMAIN obj'.multi_data[obj.multiline_key[1]]
            /\ obj'.multi_data[obj.multiline_key[1]][last_call'.key[1]] = last_call'.val[1]
       /\ (obj'.multiline_key # obj.multiline_key => last_call'.op = "set_multiline_key")]_vars

\* ------------------------------------------------------------------------
\* Steps of the driver, for the claims about what one line does
\* ------------------------------------------------------------------------
\* _parse_key_value of the line read last
LastKV == ParsedLines[Readline(pos)]

\* this step reads a line while an entity is open
ReadsWithOpen == pc = "loop" /\ last_obj # None /\ pos' = pos + 1

\* a parsed line that is neither boundary nor terminator and has no handler
IsUnknownKey(p) == p.ok /\ p.key \notin HandlerKeys /\ p.key # KEY_STOP /\ Count(p.key, "@") # 2

\* the tags registered with flag True and those registered with flag False
NestingKeys == {K_DATE, K_TIME, K_PLAC}

FlatKeys == {K_GIVN, K_NOTE, K_SEX, K_SURN, K_MARNM, K_HUSB, K_WIFE, K_CHIL, K_AKA, K_FAMC, K_FAMS, K_UID}

\* ------------------------------------------------------------------------
\* C11: with an entity open, a line with an unregistered key sets the block
\* cursor to that key and writes nothing; when the next line carries a
\* registered child key K (here DATE or PLAC, with a well-formed value), K's
\* handler result is stored in the nested-block map under the unknown tag and
\* K, and the flat map gains no entry for K.
\* ------------------------------------------------------------------------
C11_UnknownTagOpensBlock ==
    [][ReadsWithOpen =>
        /\ IsUnknownKey(LastKV') => last_obj' = Some([last_obj[1] EXCEPT !.multiline_key = Some(LastKV'.key)])
        /\ (last_obj[1].serial < pos /\ IsUnknownKey(LastKV) /\ LastKV'.ok /\ LastKV'.key \in {K_DATE, K_PLAC}) =>
            /\ Handler(LastKV'.key, LastKV'.val).ok
            /\ last_obj' # None
            /\ LastKV.key \in DOMAIN last_obj'[1].multi_data
            /\ LastKV'.key \in DOMAIN last_obj'[1].multi_data[LastKV.key]
            /\ last_obj'[1].multi_data[LastKV.key][LastKV'.key] = Handler(LastKV'.key, LastKV'.val).v
            /\ last_obj'[1].data = last_obj[1].data]_vars

\* ------------------------------------------------------------------------
\* C12: with an entity open, a line whose key is registered as flat leaves
\* the cursor empty and the nested-block map unchanged and stores the handler
\* result in the flat map: appended for CHIL and _AKA, overwriting otherwise.
\* ------------------------------------------------------------------------
C12_FlatKeyLine ==
    [][(ReadsWithOpen /\ LastKV'.ok /\ LastKV'.key \in FlatKeys) =>
        LET k == LastKV'.key
            h == Handler(k, LastKV'.val).v
            o == last_obj[1]
        IN /\ pc' = "loop"
           /\ last_obj' # None
           /\ last_obj'[1].multiline_key = None
           /\ last_obj'[1].multi_data = o.multi_data
           /\ last_obj'[1].data = DictSet(o.data, k, IF k \in {K_CHIL, K_AKA} THEN ListV(DictGet(o.data, k, ListV(<< >>)).v \o << h >>) ELSE h)]_vars

C12_Witness ==
    /\ pc = "loop"
    /\ last_obj # None
    /\ pos >= 2
    /\ last_obj[1].serial < pos - 1
    /\ IsUnknownKey(ParsedLines[Readline(pos - 1)])
    /\ LastKV.key = K_SURN
    /\ K_SURN \in DOMAIN last_obj[1].data

\* ------------------------------------------------------------------------
\* C13 as claimed: with an entity open, a line whose key is registered as
\* nesting (DATE, TIME, PLAC), once handled, has stored nothing in the flat
\* map or the nested-block map, and the cursor names that key.
\* ------------------------------------------------------------------------
C13_NestingKeyStoresNothing ==
    [][(ReadsWithOpen /\ LastKV'.ok /\ LastKV'.key \in NestingKeys /\ pc' = "loop") =>
        /\ last_obj' # None
        /\ last_obj'[1].data = last_obj[1].data
        /\ last_obj'[1].multi_data = last_obj[1].multi_data
        /\ last_obj'[1].multiline_key = Some(LastKV'.key)]_vars

\* ------------------------------------------------------------------------
\* C13 amended: with an entity open, a line whose key is registered as
\* nesting never changes the block cursor; when its handler returns, the
\* result is stored under the key in the open block's field map, or in the
\* flat map when no block is open; when its handler raises nothing is stored.
\* ------------------------------------------------------------------------
C13_NestingKeyKeepsCursor ==
    [][(ReadsWithOpen /\ LastKV'.ok /\ LastKV'.key \in NestingKeys) =>
        LET k == LastKV'.key
            o == last_obj[1]
            open == o.multiline_key # None /\ o.multiline_key[1] # << >>
        IN /\ last_obj' # None
           /\ last_obj'[1].multiline_key = o.multiline_key
           /\ IF pc' = "loop"
              THEN IF open
                   THEN /\ last_obj'[1].data = o.data
                        /\ last_obj'[1].multi_data = DictSet(o.multi_data, o.multiline_key[1], DictSet(DictGet(o.multi_data, o.multiline_key[1], EmptyDict), k, Handler(k, LastKV'.val).v))
                   ELSE /\ last_obj'[1].multi_data = o.multi_data
                        /\ last_obj'[1].data = DictSet(o.data, k, Handler(k, LastKV'.val).v)
              ELSE /\ pc' = "raised"
                   /\ last_obj'[1].data = o.data
                   /\ last_obj'[1].multi_data = o.multi_data]_vars

C13_Witness ==
    /\ pc = "loop"
    /\ last_obj # None
    /\ pos >= 1
    /\ LastKV.key = K_PLAC
    /\ last_obj[1].multiline_key # None
    /\ last_obj[1].multiline_key[1] \in DOMAIN last_obj[1].multi_data
    /\ K_PLAC \in DOMAIN last_obj[1].multi_data[last_obj[1].multiline_key[1]]

\* ------------------------------------------------------------------------
\* C14: while an entity has an open block B, a line whose key is DATE or
\* PLAC (with a well-formed value) stores the handler result in B's field map
\* under that key, leaves the flat map unchanged and leaves the cursor
\* naming B.
\* ------------------------------------------------------------------------
C14_ChildValueInOpenBlock ==
    [][(ReadsWithOpen /\ last_obj[1].multiline_key # None /\ LastKV'.ok /\ LastKV'.key \in {K_DATE, K_PLAC}) =>
        LET B == last_obj[1].multiline_key[1]
        IN /\ Handler(LastKV'.key, LastKV'.val).ok
           /\ pc' = "loop"
           /\ last_obj' # None
           /\ last_obj'[1].multiline_key = Some(B)
           /\ last_obj'[1].data = last_obj[1].data
           /\ B \in DOMAIN last_obj'[1].multi_data
           /\ LastKV'.key \in DOMAIN last_obj'[1].multi_data[B]
           /\ last_obj'[1].multi_data[B][LastKV'.key] = Handler(LastKV'.key, LastKV'.val).v]_vars

\* a read of the next line by the driver loop
ReadsLine == pc = "loop" /\ pos' = pos + 1

\* the line just read has a key and is neither a boundary nor the stop line
IsFieldLine(p) == p.ok /\ p.key # KEY_STOP /\ Count(p.key, "@") # 2

\* no event of the history belongs to a boundary of unregistered kind
NoEventForUnknownKind == \A i \in DOMAIN trace : ~(IsBoundaryAt(trace[i].ent) /\ KindAt(trace[i].ent) = "none")

\* ------------------------------------------------------------------------
\* C15: a boundary line whose value token is neither INDI nor FAM locks and
\* emits the previously open entity as any boundary does and creates no
\* accumulator; every field line between it and the next boundary or TRLR
\* line finds no entity open, writes nothing and causes no converter call;
\* no lock, creation or converter call ever carries that boundary's entity.
\* ------------------------------------------------------------------------
C15_UnknownKindSkipped ==
    [][ReadsLine =>
        /\ (LastKV'.ok /\ Count(LastKV'.key, "@") = 2 /\ LastKV'.val \notin {K_INDI, K_FAM}) =>
            /\ last_obj' = None
            /\ pc' = "loop"
            /\ CallsAt(pos)' = (IF last_obj # None THEN ExpectedEmit(last_obj[1].serial) ELSE << >>)
            /\ Len(trace') = Len(trace) + Len(CallsAt(pos)')
        /\ (PrevBoundary(pos + 1) > 0 /\ KindAt(PrevBoundary(pos + 1)) = "none" /\ IsFieldLine(LastKV')) =>
            /\ last_obj = None
            /\ last_obj' = None
            /\ trace' = trace
            /\ pc' = "loop"
            /\ err' = ""
        /\ NoEventForUnknownKind']_vars

C15_Witness ==
    /\ pc = "loop"
    /\ pos >= 3
    /\ IsBoundaryAt(pos - 1)
    /\ KindAt(pos - 1) = "none"
    /\ OpenAt(pos - 1) > 0
    /\ LastKV.ok
    /\ LastKV.key \in HandlerKeys

\* no line read so far is a boundary of a registered kind
InHeader == \A n \in 1..pos : ~(IsBoundaryAt(n) /\ KindAt(n) # "none")

\* ------------------------------------------------------------------------
\* C16: a field line read before the first boundary of a registered kind is
\* ignored whatever its key and value: no entity is open before or after
\* it, no handler error arises from it, nothing is locked, created or passed
\* to a converter, and the loop goes on.
\* ------------------------------------------------------------------------
C16_HeaderLinesIgnored ==
    [][(ReadsLine /\ InHeader /\ IsFieldLine(LastKV')) =>
        /\ last_obj = None
        /\ last_obj' = None
        /\ trace' = trace
        /\ pc' = "loop"
        /\ err' = ""]_vars

C16_Witness ==
    /\ pc = "loop"
    /\ pos >= 1
    /\ InHeader
    /\ LastKV.ok
    /\ LastKV.key \in {K_DATE, K_TIME}
    /\ trace = << >>

\* the tokens of a raw date string once its parenthesised parts are cut out
DateTokens(raw) == Split(StripBrackets(raw), " ")

DigitsOf(t) == SelectSeq(t, LAMBDA c : c \in Range(Digits))

IsMonthToken(t) == DigitsOf(t) = << >> /\ Len(t) >= 3 /\ Lower(SubSeq(t, 1, 3)) \in Range(MonthAbbr)

\* the last token that satisfies P, as an optional value
LastToken(ts, P(_)) == IF \E i \in DOMAIN ts : P(ts[i]) THEN Some(ts[CHOOSE i \in DOMAIN ts : P(ts[i]) /\ \A j \in (i + 1)..Len(ts) : ~P(ts[j])]) ELSE None

ExpectedDay(raw) == LET t == LastToken(DateTokens(raw), LAMBDA x : Len(DigitsOf(x)) \in {1, 2}) IN IF t = None THEN None ELSE Some(DigitsToInt(DigitsOf(t[1])))

ExpectedMonth(raw) == LET t == LastToken(DateTokens(raw), IsMonthToken) IN IF t = None THEN None ELSE Some(IndexIn(Lower(SubSeq(t[1], 1, 3)), MonthAbbr))

ExpectedYear(raw) == LET t == LastToken(DateTokens(raw), LAMBDA x : Len(DigitsOf(x)) > 2) IN IF t = None THEN None ELSE Some(DigitsToInt(DigitsOf(t[1])))

\* ------------------------------------------------------------------------
\* C17: the DATE handler applied to a raw date string returns the triple
\* (day, month, year) where year is the digits of the last token with more
\* than two digits, day the digits of the last token with one or two digits,
\* month the number of the last digit-free token whose first three letters
\* are a month abbreviation, and a component without such a token is absent.
\* ------------------------------------------------------------------------
C17_DateHandlerTriple ==
    fn = "_handle_date" =>
        /\ out.ok
        /\ out.v = <<ExpectedDay(arg), ExpectedMonth(arg), ExpectedYear(arg)>>

\* ------------------------------------------------------------------------
\* C18: a DATE line read while an entity is open raises no error, stores a
\* date triple under DATE in the open block or the flat map, and the loop
\* continues with the next line.
\* ------------------------------------------------------------------------
C18_DateLineNeverAborts ==
    [][(ReadsWithOpen /\ LastKV'.ok /\ LastKV'.key = K_DATE) =>
        /\ pc' = "loop"
        /\ err' = ""
        /\ last_obj' # None
        /\ \/ K_DATE \in DOMAIN last_obj'[1].data
           \/ \E b \in DOMAIN last_obj'[1].multi_data : K_DATE \in DOMAIN last_obj'[1].multi_data[b]]_vars

\* ------------------------------------------------------------------------
\* C19: a TIME line read while an entity is open whose value is not of the
\* form HH:MM:SS does not abort the parse: no error leaves the loop, which
\* goes on to the next line.
\* ------------------------------------------------------------------------
C19_BadTimeNeverAborts ==
    [][(ReadsWithOpen /\ LastKV'.ok /\ LastKV'.key = K_TIME /\ ~handle_time(LastKV'.val).ok) =>
        /\ pc' = "loop"
        /\ err' = ""
        /\ last_obj' # None]_vars

\* ------------------------------------------------------------------------
\* C20: every component of the triple parse_partial_date returns is absent
\* or an integer: month in 1..12; day in 0..99, the digits of a token with
\* one or two digits; year at least 0, the digits of a token with three or
\* more digits.
\* ------------------------------------------------------------------------
C20_DateComponentsNumeric ==
    fn = "parse_partial_date" =>
        /\ out.ok
        /\ Len(out.v) = 3
        /\ \A k \in 1..3 : out.v[k] = None \/ (Len(out.v[k]) = 1 /\ out.v[k][1] \in Int)
        /\ out.v[1] # None =>
            /\ out.v[1][1] \in 0..99
            /\ \E i \in DOMAIN DateTokens(arg) : Len(DigitsOf(DateTokens(arg)[i])) \in {1, 2} /\ DigitsToInt(DigitsOf(DateTokens(arg)[i])) = out.v[1][1]
        /\ out.v[2] # None => out.v[2][1] \in 1..12
        /\ out.v[3] # None =>
            /\ out.v[3][1] >= 0
            /\ \E i \in DOMAIN DateTokens(arg) : Len(DigitsOf(DateTokens(arg)[i])) >= 3 /\ DigitsToInt(DigitsOf(DateTokens(arg)[i])) = out.v[3][1]

C20_Witness ==
    /\ fn = "parse_partial_date"
    /\ out.ok
    /\ out.v[1] # None
    /\ out.v[2] # None
    /\ out.v[3] # None
    /\ T_185 \in Range(DateTokens(arg))

\* nesting depth of parentheses after the first n characters of s
RECURSIVE Depth(_, _)
Depth(s, n) == IF n = 0 THEN 0 ELSE Depth(s, n - 1) + (IF s[n] = "(" THEN 1 ELSE IF s[n] = ")" THEN -1 ELSE 0)

\* every "(" has a later ")", no ")" comes first, nothing is nested
Balanced(s) == Depth(s, Len(s)) = 0 /\ \A n \in 0..Len(s) : Depth(s, n) \in {0, 1}

\* s without its parenthesised substrings and their parentheses
OutsideParens(s) == LET keep == {n \in DOMAIN s : Depth(s, n) = 0 /\ s[n] # ")"} IN [i \in 1..Cardinality(keep) |-> s[CHOOSE n \in keep : Cardinality({m \in keep : m < n}) = i - 1]]

\* ------------------------------------------------------------------------
\* C21 as claimed: the string parse_partial_date tokenizes is the input
\* without its parenthesised substrings when the parentheses are balanced
\* and the input unchanged when they are not; the loop terminates.
\* ------------------------------------------------------------------------
C21_StripAllOrNothing ==
    fn = "stripped" => out.v = (IF Balanced(arg) THEN OutsideParens(arg) ELSE arg)

\* ------------------------------------------------------------------------
\* C21 amended: each iteration of the stripping loop cuts the text from the
\* first "(" through the first ")" and shortens the string, and the loop
\* ends when either is missing or the first ")" precedes the first "("; the
\* string then left is the one tokenized. It is the input without its
\* parenthesised substrings when the parentheses are balanced, the input
\* unchanged when a parenthesis kind is missing or a ")" comes first, and
\* otherwise the input with the pairs cut so far removed.
\* ------------------------------------------------------------------------
C21_StripLoop ==
    [][fn = "strip_loop" =>
        LET s == out.v
            io == Find(s, "(")
            ic == Find(s, ")")
        IN /\ IF io > -1 /\ ic > io
              THEN /\ fn' = "strip_loop"
                   /\ out'.v = [i \in 1..(Len(s) - (ic - io + 1)) |-> IF i <= io THEN s[i] ELSE s[i + (ic - io + 1)]]
                   /\ Len(out'.v) < Len(s)
              ELSE /\ fn' = "stripped"
                   /\ out' = out
           /\ fn' = "stripped" =>
               /\ parse_partial_date(arg) = DateParts(<<None, None, None>>, Split(out'.v, " "))
               /\ Balanced(arg) => out'.v = OutsideParens(arg)
               /\ (Find(arg, "(") = -1 \/ Find(arg, ")") = -1 \/ Find(arg, ")") < Find(arg, "(")) => out'.v = arg]_vars

C21_Witness ==
    /\ fn = "stripped"
    /\ ~Balanced(arg)
    /\ out.v # arg
    /\ Find(out.v, "(") > -1

\* the events that a step appends to the history
NewEvents == {i \in DOMAIN trace' : i > Len(trace)}

\* reading last_updated of the entity of event i raises nothing, and gives a
\* timestamp exactly when its CHAN block holds a complete DATE
LastUpdatedAsClaimed(i) ==
    trace[i].ev = "save_person" =>
        LET o == trace[i].obj
            chan == DictGet(o.multi_data, K_CHAN, EmptyDict)
        IN /\ last_updated(o).ok
           /\ last_updated(o).v # None <=> (K_DATE \in DOMAIN chan /\ \A k \in 1..3 : chan[K_DATE].v[k] # None)

\* ------------------------------------------------------------------------
\* C22: for every Person passed to a converter, reading last_updated raises
\* no error, and it is a timestamp exactly when the CHAN block holds a DATE
\* whose day, month and year are all present; otherwise it is absent.
\* ------------------------------------------------------------------------
C22_LastUpdatedTotal == [][\A i \in NewEvents : LastUpdatedAsClaimed(i)']_vars

\* the lines of the entity opened at line m and emitted at line n that carry key k
LinesWithKey(k, m, n) == {j \in (m + 1)..(n - 1) : POk(j) /\ PKey(j) = k}

\* is_male of the person of event i is true without a SEX line and otherwise
\* tells whether the value of the last SEX line is "m" in either case
IsMaleAsClaimed(i) ==
    trace[i].ev = "save_person" =>
        LET sex == LinesWithKey(K_SEX, trace[i].ent, trace[i].at)
        IN is_male(trace[i].obj) = (IF sex = {} THEN TRUE ELSE PVal(CHOOSE j \in sex : \A k \in sex : k <= j) \in {<<"m">>, <<"M">>})

\* ------------------------------------------------------------------------
\* C23: a Person passed to a converter reports is_male true when none of
\* its lines is a SEX line, and otherwise reports whether the value of its
\* last SEX line equals "m" ignoring case.
\* ------------------------------------------------------------------------
C23_IsMale == [][\A i \in NewEvents : IsMaleAsClaimed(i)']_vars

C23_Witness ==
    \E i \in DOMAIN trace :
        /\ trace[i].ev = "save_person"
        /\ trace[i].conv = NumConverters
        /\ trace[i].ent = 1
        /\ trace[i].at = 4
        /\ PKey(2) = K_SEX /\ PVal(2) = <<"F">>
        /\ PKey(3) = K_SEX /\ PVal(3) = <<"M">>
        /\ is_male(trace[i].obj)

\* the converter calls of the history, in order
SaveCalls == SelectSeq(trace, LAMBDA e : e.ev \in SaveEvents)

\* ------------------------------------------------------------------------
\* C24: a file made of a FAM boundary, a HUSB line, a WIFE line, a MARR line
\* with DATE and PLAC lines, and TRLR is read to its end without error and
\* gives one save_family call per converter and no save_person call, on a
\* family whose husband_id and wife_id are the link values without "@",
\* whose marriage day, month and year are the triple of the DATE value and
\* whose marriage_place is the PLAC value.
\* ------------------------------------------------------------------------
C24_FamilyRoundTrip ==
    (file # << >> /\ file[1] = L_FAM7 /\ pos >= 5) =>
        /\ pc # "raised"
        /\ pos = Len(FamilyStream) =>
            /\ pc = "returned"
            /\ Len(SaveCalls) = NumConverters
            /\ \A i \in DOMAIN SaveCalls :
                /\ SaveCalls[i].ev = "save_family"
                /\ SaveCalls[i].conv = i
                /\ husband_id(SaveCalls[i].obj) = Some(Remove(PVal(2), "@"))
                /\ wife_id(SaveCalls[i].obj) = Some(Remove(PVal(3), "@"))
                /\ marriage_day(SaveCalls[i].obj) = ExpectedDay(PVal(5))
                /\ marriage_month(SaveCalls[i].obj) = ExpectedMonth(PVal(5))
                /\ marriage_year(SaveCalls[i].obj) = ExpectedYear(PVal(5))
                /\ marriage_place(SaveCalls[i].obj) = Some(PVal(6))

\* the command has ended, normally or with an error
CmdEnded == cmd.at \in {"done", "raised"}

\* ------------------------------------------------------------------------
\* C25: when the convert command ends and no flush() raised, every
\* registered converter has received exactly one flush() call over the whole
\* run, whether parse_ged_file returned or raised, also under --replace.
\* ------------------------------------------------------------------------
C25_FlushExactlyOnce ==
    (CmdEnded /\ ~cmd.flush_raised) => \A i \in DOMAIN cmd.converters : cmd.flushes[cmd.converters[i]] = 1

\* ------------------------------------------------------------------------
\* C27: when a flush() raised in the final flush loop, flush() has still
\* been attempted on every registered converter by the time the command ends.
\* ------------------------------------------------------------------------
C27_FlushAttemptedOnAll ==
    (CmdEnded /\ cmd.flush_raised) => \A i \in DOMAIN cmd.converters : cmd.flushes[cmd.converters[i]] >= 1

\* the object of event i carries the key of its boundary line without "@"
EventIdAsCreated(i) == trace[i].obj.id = Remove(PKey(trace[i].ent), "@")

\* ------------------------------------------------------------------------
\* C26: the identifier of an entity is the key of its boundary line with
\* every "@" removed from the step that creates the accumulator; no step
\* that keeps the same accumulator (set_data, set_multiline_key) changes it,
\* and the objects locked and passed to converters still carry it.
\* ------------------------------------------------------------------------
C26_IdentifierSetOnce ==
    [][/\ (last_obj' # None /\ (last_obj = None \/ last_obj[1].serial # last_obj'[1].serial)) =>
            /\ last_obj'[1].serial = pos'
            /\ last_obj'[1].id = Remove(LastKV'.key, "@")
       /\ (last_obj # None /\ last_obj' # None /\ last_obj[1].serial = last_obj'[1].serial) =>
            last_obj'[1].id = last_obj[1].id
       /\ \A i \in NewEvents : EventIdAsCreated(i)']_vars

C26_Witness ==
    /\ last_obj # None
    /\ last_obj[1].data # EmptyDict
    /\ last_obj[1].id = <<"I", "1">>
    /\ \E i \in DOMAIN trace : trace[i].ev = "save_family" /\ trace[i].obj.id = <<"F", "1">> /\ trace[i].obj.data # EmptyDict

\* ------------------------------------------------------------------------
\* C28: when a converter's save call raises, the error leaves parse_ged_file
\* at once: the entity was locked and offered to the converters up to the
\* failing one, once each and in list order, and to none after it; and once
\* the error is out no line is read and no converter is called any more.
\* ------------------------------------------------------------------------
C28_SinkErrorPropagates ==
    [][/\ (\E i \in NewEvents : trace'[i].ev = "raise") =>
            LET c == trace'[Len(trace')].conv
            IN /\ last_obj # None
               /\ pc' = "raised"
               /\ err' = "ConverterError"
               /\ pos' = pos + 1
               /\ trace'[Len(trace')].ev = "raise"
               /\ Len(trace') = Len(trace) + 2 + c
               /\ CallsAt(pos)' = SubSeq(ExpectedEmit(last_obj[1].serial), 1, 1 + c) \o << <<"raise", c, last_obj[1].serial, FALSE>> >>
       /\ pc = "raised" => (pos' = pos /\ file' = file /\ trace' = trace /\ pc' = "raised")]_vars

C28_Witness ==
    /\ pc = "raised"
    /\ err = "ConverterError"
    /\ NumConverters > 1
    /\ trace[Len(trace)].ev = "raise"
    /\ trace[Len(trace)].conv = 1
    /\ IsBoundaryAt(pos)

\* ------------------------------------------------------------------------
\* C29 as claimed: after flush() returns, every person and every family the
\* converter accepted has been written once, in the order accepted within
\* its kind, and the row buffers are empty, for both converters.
\* ------------------------------------------------------------------------
C29_AllAcceptedWritten ==
    cv.at = "flushed" =>
        /\ cv.out_p = cv.acc_p
        /\ cv.out_f = cv.acc_f
        /\ cv.p_rows = << >>
        /\ cv.f_rows = << >>

\* ------------------------------------------------------------------------
\* C29 amended: after flush() returns the row buffers are empty and every
\* family the converter accepted has been written once, in the order
\* accepted; SqliteConverter has also written every person it accepted, once
\* and in order, while FamilyCsv has written no person at all. Before
\* flush(), what is written and what is buffered make up what was accepted.
\* ------------------------------------------------------------------------
C29_FlushWritesBuffered ==
    /\ cv.out_f \o cv.f_rows = cv.acc_f
    /\ cv.out_p \o cv.p_rows = (IF cv.kind = "sqlite" THEN cv.acc_p ELSE << >>)
    /\ Len(cv.p_rows) < CHUNK_SIZE
    /\ Len(cv.f_rows) < CHUNK_SIZE
    /\ cv.at = "flushed" => (cv.p_rows = << >> /\ cv.f_rows = << >>)

C29_Witness ==
    /\ cv.at = "flushed"
    /\ cv.kind = "csv"
    /\ Len(cv.acc_f) = CHUNK_SIZE
    /\ Len(cv.acc_p) = 1
    /\ cv.out_p = << >>

\* ------------------------------------------------------------------------
\* C30: a call of ensure_database invokes parse_ged_file exactly when the
\* hash of the file's bytes differs from the hash stored under the file's
\* name, or none is stored; the stored hash changes only when parse_ged_file
\* returned, and then to the hash taken before the parse; when
\* parse_ged_file raises the stored hashes are as before and differ from the
\* file's hash, so that the next call parses again.
\* ------------------------------------------------------------------------
CallStarts == db.at = "idle" /\ (db'.at = "parsing" \/ Len(db'.log) = Len(db.log) + 1)

CallEnds(how) ==
    /\ Len(db'.log) = Len(db.log) + 1
    /\ db'.log[Len(db'.log)].how = how

C30_ReparseIffHashChanged ==
    [][/\ CallStarts =>
              (db'.at = "parsing" <=> db.stored[db'.datafile] # Some(db.cur[db'.datafile]))
       /\ CallStarts /\ db'.at # "parsing" => CallEnds("skipped")
       /\ db'.stored # db.stored =>
              /\ db.at = "parsing"
              /\ CallEnds("returned")
              /\ db'.stored = [db.stored EXCEPT ![db.datafile] = Some(db.current_hash)]
       /\ CallEnds("returned") => db'.stored[db.datafile] = Some(db.current_hash)
       /\ CallEnds("raised") =>
              /\ db'.stored = db.stored
              /\ db'.stored[db.datafile] # Some(db.current_hash)]_vars

C30_Witness ==
    /\ db.at = "idle"
    /\ Len(db.log) = 3
    /\ \A i \in 1 .. 3 : db.log[i].datafile = "a.ged"
    /\ db.log[1].how = "raised"
    /\ db.log[2].how = "returned"
    /\ db.log[3].how = "skipped"
    /\ db.stored["a.ged"] = Some(db.cur["a.ged"])
    /\ db.stored["b.ged"] = None

\* ------------------------------------------------------------------------
\* C31: whenever the hash stored for the file is the hash of the bytes just
\* parsed, every person and every family the converter accepted in that
\* parse has been written to the database and no row is left in the
\* converter's buffers.
\* ------------------------------------------------------------------------
C31_HashAfterRows ==
    (pc = "ensure" /\ db.stored = Some(db.current_hash)) =>
        /\ cv.p_rows = << >>
        /\ cv.f_rows = << >>
        /\ cv.out_p = cv.acc_p
        /\ cv.out_f = cv.acc_f

\* ------------------------------------------------------------------------
\* C32: a save call leaves fewer than CHUNK_SIZE rows in each buffer; the
\* call that brings a buffer to CHUNK_SIZE rows writes all of them, in
\* order, and empties the buffer; rows are written by such a call or by
\* flush() and by nothing else.
\* ------------------------------------------------------------------------
SaveCallOn(buf, acc) == cv'.at = "open" /\ Len(cv'[acc]) = Len(cv[acc]) + 1

C32_BufferBelowChunk ==
    [][/\ Len(cv'.p_rows) < CHUNK_SIZE
       /\ Len(cv'.f_rows) < CHUNK_SIZE
       /\ \A k \in {<<"p_rows", "acc_p", "out_p">>, <<"f_rows", "acc_f", "out_f">>} :
             LET buf == k[1]
                 acc == k[2]
                 written == k[3]
                 row == Len(cv[acc]) + 1
             IN /\ (SaveCallOn(buf, acc) /\ Len(cv[buf]) + 1 = CHUNK_SIZE /\ (cv.kind = "sqlite" \/ buf = "f_rows")) =>
                       /\ cv'[written] = cv[written] \o Append(cv[buf], row)
                       /\ cv'[buf] = << >>
                /\ cv'[written] # cv[written] =>
                       \/ cv'.at = "flushed" /\ cv.at = "open" /\ cv'[written] = cv[written] \o cv[buf]
                       \/ SaveCallOn(buf, acc) /\ Len(cv[buf]) + 1 = CHUNK_SIZE]_vars

C32_Witness ==
    /\ pc = "conv"
    /\ cv.at = "open"
    /\ cv.kind = "csv"
    /\ Len(cv.out_f) = CHUNK_SIZE
    /\ Len(cv.acc_f) = CHUNK_SIZE + 1
    /\ Len(cv.f_rows) = 1

\* ------------------------------------------------------------------------
\* C33: the converters are checked before the input is opened: with a
\* converter that is no BaseConverter in the list, parse_ged_file never gets
\* to read a line or to call a converter, and when it ends it has raised
\* the ValueError of the check; the file is read only after every converter
\* passed.
\* ------------------------------------------------------------------------
AllConvertersValid == \A i \in 1 .. NumConverters : cmd.valid[i]

C33_ConvertersCheckedFirst ==
    /\ ~AllConvertersValid =>
          /\ pc \in {"check", "raised"}
          /\ pos = 0
          /\ file = << >>
          /\ trace = << >>
          /\ pc = "raised" => err = ERR_CONVERTER
    /\ (pos > 0 \/ trace # << >> \/ pc = "loop") => AllConvertersValid
    /\ err = ERR_CONVERTER => ~AllConvertersValid

C33_Witness ==
    /\ pc = "raised"
    /\ err = ERR_CONVERTER
    /\ cmd.valid[1]
    /\ ~cmd.valid[NumConverters]
    /\ cmd.idx = NumConverters
    /\ trace = << >>
    /\ pos = 0

\* the converter of save call j was given no entity before whose boundary
\* line is the same or a later one, and the entity's boundary is a line read
SavedInOrder(j) ==
    trace[j].ev \in SaveEvents =>
        /\ trace[j].ent \in 1 .. pos
        /\ IsBoundaryAt(trace[j].ent)
        /\ \A i \in 1 .. (j - 1) :
              (trace[i].ev \in SaveEvents /\ trace[i].conv = trace[j].conv) =>
                  trace[i].ent < trace[j].ent

\* ------------------------------------------------------------------------
\* C34: every converter is passed the entities in the order of their
\* boundary lines in the input: whenever a save call is made, each entity
\* the same converter was passed before has an earlier boundary line.
\* ------------------------------------------------------------------------
C34_EntitiesInStreamOrder == [][\A j \in NewEvents : SavedInOrder(j)']_vars

C34_Witness ==
    \E i, j \in DOMAIN trace :
        /\ i < j
        /\ trace[i].ev = "save_person"
        /\ trace[j].ev = "save_family"
        /\ trace[i].conv = NumConverters
        /\ trace[j].conv = NumConverters
        /\ trace[i].ent = 1
        /\ trace[j].ent = 3

\* lines of the entity created at line m, up to line n
OwnLines(m, n) == {j \in (m + 1) .. n : POk(j)}

\* v is the handler result of one of the lines js with key k
FromLine(k, v, js) == \E j \in js : PKey(j) = k /\ k \in HandlerKeys /\ Handler(k, PVal(j)).ok /\ Handler(k, PVal(j)).v = v

\* all that o holds was written by lines of its own
OwnContent(o, n) ==
    LET js == OwnLines(o.serial, n)
    IN /\ IsBoundaryAt(o.serial)
       /\ o.id = Remove(PKey(o.serial), "@")
       /\ \A k \in DOMAIN o.data :
             IF k \in GED_LIST_KEYS
             THEN \A i \in DOMAIN o.data[k].v : FromLine(k, o.data[k].v[i], js)
             ELSE FromLine(k, o.data[k], js)
       /\ \A b \in DOMAIN o.multi_data :
             /\ \E j \in js : PKey(j) = b /\ b \notin HandlerKeys
             /\ \A k \in DOMAIN o.multi_data[b] : FromLine(k, o.multi_data[b][k], js)
       /\ o.multiline_key # None => \E j \in js : PKey(j) = o.multiline_key[1] /\ PKey(j) \notin HandlerKeys

OpenEntityOwn == last_obj # None => OwnContent(last_obj[1], pos)

EventEntityOwn(i) == OwnContent(trace[i].obj, trace[i].at - 1)

\* every entity created before event j was locked before it
OneOpen(j) ==
    trace[j].ev = "new" =>
        \A k \in 1 .. (j - 1) : trace[k].ev = "new" =>
            \E l \in (k + 1) .. (j - 1) : trace[l].ev = "lock" /\ trace[l].ent = trace[k].ent

\* ------------------------------------------------------------------------
\* C35: the driver has one entity open at a time: an accumulator is created
\* only after every earlier one was locked, and it starts unlocked with an
\* empty flat map, an empty nested-block map and no block cursor; a step
\* that keeps the accumulator changes it only while reading one of its own
\* lines; everything an open or emitted entity holds (its identifier, flat
\* values, blocks, block fields, cursor) was written by a line between its
\* own boundary line and the next boundary, and the history of calls made
\* is never rewritten.
\* ------------------------------------------------------------------------
C35_EntitiesIsolated ==
    [][/\ (last_obj' # None /\ (last_obj = None \/ last_obj[1].serial # last_obj'[1].serial)) =>
              /\ last_obj'[1].serial = pos'
              /\ last_obj'[1].allow_changes
              /\ last_obj'[1].data = EmptyDict
              /\ last_obj'[1].multi_data = EmptyDict
              /\ last_obj'[1].multiline_key = None
       /\ (last_obj # None /\ last_obj' # None /\ last_obj[1].serial = last_obj'[1].serial /\ last_obj' # last_obj) =>
              /\ pos' = pos + 1
              /\ OpenAt(pos)' = last_obj[1].serial
       /\ OpenEntityOwn'
       /\ Len(trace') >= Len(trace)
       /\ SubSeq(trace', 1, Len(trace)) = trace
       /\ \A i \in NewEvents : OneOpen(i)' /\ EventEntityOwn(i)']_vars

C35_Witness ==
    /\ last_obj # None
    /\ last_obj[1].serial = 3
    /\ DOMAIN last_obj[1].data = {K_CHIL}
    /\ \E i \in DOMAIN trace :
          /\ trace[i].ev = "save_person"
          /\ trace[i].ent = 1
          /\ DOMAIN trace[i].obj.data = {K_SURN}

\* ------------------------------------------------------------------------
\* C36: a DATE, TIME or PLAC line read while the open entity has no block
\* cursor is stored in the flat map under its key (for TIME: when the value
\* is a time of day), parsing goes on, and the nested-block map and the
\* cursor stay as they were, so that no block accessor changes.
\* ------------------------------------------------------------------------
C36_NestingKeyWithoutBlock ==
    [][(/\ ReadsWithOpen
        /\ last_obj[1].multiline_key = None
        /\ LastKV'.ok
        /\ LastKV'.key \in NestingKeys
        /\ LastKV'.key = K_TIME => Handler(K_TIME, LastKV'.val).ok) =>
           /\ pc' = "loop"
           /\ last_obj' # None
           /\ Handler(LastKV'.key, LastKV'.val).ok
           /\ last_obj'[1].data = DictSet(last_obj[1].data, LastKV'.key, Handler(LastKV'.key, LastKV'.val).v)
           /\ last_obj'[1].multi_data = last_obj[1].multi_data
           /\ last_obj'[1].multiline_key = None]_vars

\* the block cursor of the entity of boundary line m after its line n: set
\* by the last line that is not a DATE, TIME or PLAC line
CursorAfter(m, n) ==
    LET js == {j \in (m + 1) .. n : POk(j) /\ PKey(j) \notin NestingKeys}
        last == CHOOSE j \in js : \A i \in js : i <= j
    IN IF js = {} \/ PKey(last) \in HandlerKeys THEN None ELSE Some(PKey(last))

\* the lines m+1..n with key k whose value the handler accepts, read while
\* the cursor names block b, whichever occurrence of b opened it
BlockWrites(m, n, b, k) ==
    {j \in (m + 1) .. n : POk(j) /\ PKey(j) = k /\ Handler(k, PVal(j)).ok /\ CursorAfter(m, j - 1) = Some(b)}

Latest(js) == CHOOSE j \in js : \A i \in js : i <= j

\* the tags of the lines m+1..n that open a block
BlockTags(m, n) == {PKey(j) : j \in {i \in (m + 1) .. n : POk(i) /\ PKey(i) \notin HandlerKeys /\ PKey(i) # << >>}}

MergedBlocks(o, n) ==
    /\ DOMAIN o.multi_data \subseteq BlockTags(o.serial, n)
    /\ \A b \in BlockTags(o.serial, n) : \A k \in NestingKeys :
          LET w == BlockWrites(o.serial, n, b, k)
          IN IF w = {}
             THEN b \in DOMAIN o.multi_data => k \notin DOMAIN o.multi_data[b]
             ELSE /\ b \in DOMAIN o.multi_data
                  /\ k \in DOMAIN o.multi_data[b]
                  /\ o.multi_data[b][k] = Handler(k, PVal(Latest(w))).v
    /\ \A b \in DOMAIN o.multi_data : DOMAIN o.multi_data[b] \subseteq NestingKeys

\* ------------------------------------------------------------------------
\* C37: the nested-block map of an entity has one field map per block tag,
\* however often the tag was opened: for every block tag and child key the
\* map holds the handler result of the last line with that key read while a
\* block of that tag was open, be it under the first or a later occurrence
\* of the tag, and it holds no other entry.
\* ------------------------------------------------------------------------
C37_ReopenedBlockMerges == \A e \in Entities : MergedBlocks(e.o, e.upto)

C37_Witness ==
    /\ file # << >>
    /\ file[1] = L_INDI9
    /\ pos = 6
    /\ file[3] = L_PLAC
    /\ file[5] = L_MARR
    /\ file[6] = L_PLACy
    /\ last_obj # None
    /\ DOMAIN last_obj[1].multi_data = {K_MARR}
    /\ DOMAIN last_obj[1].multi_data[K_MARR] = {K_PLAC, K_TIME}
    /\ last_obj[1].multi_data[K_MARR][K_PLAC] = StrV(<<"y">>)

\* ------------------------------------------------------------------------
\* C38: the loop over the descendants comes to its end whatever the tables
\* hold, also when the parent and child links form a cycle.
\* ------------------------------------------------------------------------
C38_TraversalTerminates == <>(pc = "done")

====
